---- MODULE Spec2Model ----
(***************************************************************************)
(* Model of the multi-pass engine of the Bit Shift Assembler (bsa),        *)
(* version 10-Jan-2023.  A source program is a sequence of parsed lines;   *)
(* one action handles one source line the way ParseLine dispatches it, and *)
(* the pass driver of main() runs MaxPass passes over the same lines.      *)
(* Addresses, opcodes and data bytes keep their numeric values.            *)
(***************************************************************************)
EXTENDS Integers, Sequences, FiniteSets, TLC

\* ------------------------------------------------------------------------
\* Program constants
\* ------------------------------------------------------------------------
MAXMAC == 64

SFMAX == 20

UNDEF == 16711680
\* 0xff0000, value of an undefined symbol

MAXPASS == 20

MaxPass == MAXPASS
\* MaxPass is initialised to MAXPASS and never assigned again

ROMSIZE == 65792
\* 0x10100: 64K plus one guard page

ROM_Fill == 0

ERRMAX == 10

CPU_6502 == 1

CPU_45GS02 == 8

C45 == 247
\* 0xf7: mask of the CPUs that lack the 45GS02 instructions

AM_None == -1

AM_Dpag == 0

AM_Abso == 1

AM_Imme == 5

AM_Rela == 9

AM_Impl == 12

ASCII == 0

PETSCII == 1

SCREENCODE == 2

\* ------------------------------------------------------------------------
\* Bounds of the explored inputs
\* ------------------------------------------------------------------------
MaxLines == 2
\* number of free lines after the header of a generated program

MaxChain == 19
\* longest chain A1 = A2, A2 = A3, ... of the chained programs

MaxText == 4
\* longest operand text that is evaluated

MaxSpin == 2
\* number of loop iterations without any effect that are followed

\* ------------------------------------------------------------------------
\* Parsed source lines
\* ------------------------------------------------------------------------
Num(n) == [t |-> "num", n |-> n, s |-> ""]

Sym(s) == [t |-> "sym", n |-> 0, s |-> s]

Par(i) == [t |-> "par", n |-> i, s |-> ""]
\* the i-th formal parameter inside a macro body, stored as &i

BaseLine == [k |-> "none", lbl |-> "", mne |-> "", imm |-> FALSE,
             e |-> Num(0), e2 |-> Num(0), items |-> <<>>, arg |-> "",
             body |-> <<>>, args |-> <<>>]

EmptyLine == [BaseLine EXCEPT !.k = "empty"]

OrgLine(form, e) == [BaseLine EXCEPT !.k = "org", !.arg = form, !.e = e]

LabelLine(l) == [BaseLine EXCEPT !.lbl = l]

AssignLine(l, e) == [BaseLine EXCEPT !.k = "assign", !.lbl = l, !.e = e]

InsLine(l, mne, imm, e) == [BaseLine EXCEPT !.k = "ins", !.lbl = l, !.mne = mne, !.imm = imm, !.e = e]

ImpLine(l, mne) == [BaseLine EXCEPT !.k = "ins", !.lbl = l, !.mne = mne, !.arg = "implied"]

ByteLine(l, items) == [BaseLine EXCEPT !.k = "byte", !.lbl = l, !.items = items]

WordLine(l, dir, items) == [BaseLine EXCEPT !.k = "word", !.lbl = l, !.items = items, !.arg = dir]

FillLine(l, m, v) == [BaseLine EXCEPT !.k = "fill", !.lbl = l, !.e = m, !.e2 = v]

SetBSSLine(e)      == [BaseLine EXCEPT !.k = "setbss", !.e = e]
BSSLabelLine(l, e) == [BaseLine EXCEPT !.k = "bsslabel", !.lbl = l, !.e = e]
BSSLine(e)         == [BaseLine EXCEPT !.k = "bss", !.e = e]
IfdefLine(e)       == [BaseLine EXCEPT !.k = "ifdef", !.e = e]
IfLine(e)          == [BaseLine EXCEPT !.k = "if", !.e = e]
ElseLine           == [BaseLine EXCEPT !.k = "else"]
EndifLine          == [BaseLine EXCEPT !.k = "endif"]
\* MACRO name(formals) with the lines up to ENDMAC, which RecordMacro
\* reads itself; the formals stand in operand position of the body lines
MacroLine(name, formals, body) ==
  [BaseLine EXCEPT !.k = "macro", !.lbl = name, !.args = formals, !.body = body]
\* name(args), or name alone when parens is ""
CallLine(name, parens, args) ==
  [BaseLine EXCEPT !.k = "call", !.lbl = name, !.arg = parens, !.args = args]
CaseLine(sign)     == [BaseLine EXCEPT !.k = "case", !.arg = sign]
LoadLine           == [BaseLine EXCEPT !.k = "load"]
\* .STORE start,length,"name"
StoreLine(start, length, name) ==
  [BaseLine EXCEPT !.k = "store", !.e = start, !.e2 = length, !.arg = name]
EndLine            == [BaseLine EXCEPT !.k = "end"]
CpuLine(name) == [BaseLine EXCEPT !.k = "cpu", !.arg = name]
ModuleLine(name) == [BaseLine EXCEPT !.k = "module", !.lbl = name]
EndModLine == [BaseLine EXCEPT !.k = "endmod"]

\* items of a .BYTE list
ExprItem(pre, e) == [t |-> "expr", pre |-> pre, e |-> e, text |-> <<>>, hib |-> FALSE]

StrItem(text, hib) == [t |-> "str", pre |-> "", e |-> Num(0), text |-> text, hib |-> hib]

PackItem(pre, text) == [t |-> "pack", pre |-> pre, e |-> Num(0), text |-> text, hib |-> FALSE]

\* ------------------------------------------------------------------------
\* State
\* ------------------------------------------------------------------------
VARIABLES src, BranchOpt, CPU_Type, Pass, li, pc, bp, lab, BOC, ROM, ErrNum,
          status, last, hist, wlog,
          Line, bss, IfLevel, SkipLine, Skipping, IgnoreCase,
          WriteLA, SF, files, Mac, InsideMacro, MacroPointer, MacArgs, LiNo,
          Scope, eval

vars == <<src, BranchOpt, CPU_Type, Pass, li, pc, bp, lab, BOC, ROM, ErrNum,
          status, last, hist, wlog,
          Line, bss, IfLevel, SkipLine, Skipping, IgnoreCase,
          WriteLA, SF, files, Mac, InsideMacro, MacroPointer, MacArgs, LiNo,
          Scope, eval>>

\* the state of the assembly of a file
file == <<src, BranchOpt, CPU_Type, Pass, li, pc, bp, lab, BOC, ROM, ErrNum,
          status, last, hist, wlog,
          Line, bss, IfLevel, SkipLine, Skipping, IgnoreCase,
          WriteLA, SF, files, Mac, InsideMacro, MacroPointer, MacArgs, LiNo,
          Scope>>

\* the variables that only some directives change
side == <<CPU_Type, bss, IfLevel, SkipLine, Skipping, IgnoreCase, WriteLA, SF, Mac>>

\* the variables that say where the next line comes from
feed == <<li, Line, InsideMacro, MacroPointer, MacArgs, LiNo,
          Scope>>

\* src      the source file, a sequence of parsed lines
\* li       index of the source line read last
\* Line     the line that ParseLine handles next: src[li], or a line of
\*          a macro body with the arguments put in, or the empty line
\*          that ends a macro expansion
\* LiNo     the line number that goes with Line
\* Scope    the module name that GetSymbol puts in front of local symbols
\* eval     one evaluation of an operand text by EvalOperand: the text, the
\*          position p in it, the stack of the calls of EvalOperand that
\*          have not returned, the place st where the innermost call
\*          stands, the value v that the last return delivered, and the
\*          number spin of loop iterations that changed nothing
\* bss      the BSS counter
\* IfLevel, SkipLine, Skipping   the state of conditional assembly
\* IgnoreCase   1 when symbols are compared without regard to case
\* WriteLA, SF  the .LOAD flag and the list of .STORE directives
\* files    the binary files written by WriteBinaries
\* Mac      the macro table; MacroPointer = [m, i] stands at line i of the
\*          body of Mac[m], and [0, 0] is the NULL pointer
\* lab      the label table lab[0..Labels-1], in order of creation
\* ROM      the image, as the function from the indices written so far to
\*          their bytes; every other index still holds ROM_Fill
\* status   "run", "done" (main returned), "stopped" (ERRMAX reached), "ended"
\*          (main returned after ERRMAX was reached),
\*          "fatal" (exit(1)) or "ub" (a write outside ROM[] happened)
\* last     what the line handled last did (history variable)
\* hist     pc and instruction length of every line in the passes
\*          MaxPass-1 and MaxPass (history variable)
\* wlog     the image indices written in this pass (history variable)

\* ------------------------------------------------------------------------
\* Symbol table
\* ------------------------------------------------------------------------
\* the upper case form of the names that have lower case letters
Upper == [foo |-> "FOO"]

Fold(s) == IF s \in DOMAIN Upper THEN Upper[s] ELSE s

\* a comparison that does not look at IgnoreCase
StrCmpExact(s1, s2) == s1 = s2

StrCmp(s1, s2) == IF IgnoreCase = 1 THEN Fold(s1) = Fold(s2) ELSE s1 = s2
\* TRUE where the C function returns 0

RECURSIVE LabelScan(_, _, _)
LabelScan(name, labv, i) ==
  IF i > Len(labv) THEN 0
  ELSE IF StrCmp(name, labv[i].Name) THEN i
  ELSE LabelScan(name, labv, i + 1)

LabelIndex(name, labv) == LabelScan(name, labv, 1)
\* position of the first entry with that name, 0 where the code returns -1

NewLabel(name, addr) == [Name |-> name, Address |-> addr, Bytes |-> 0, Locked |-> 0]

AddLabel(name, labv) == Append(labv, NewLabel(name, UNDEF))

EvalSymValue(name, labv, pass) ==
  LET i == LabelIndex(name, labv) IN
  IF i > 0
  THEN [v |-> labv[i].Address, lab |-> labv,
        fatal |-> (pass = MaxPass /\ labv[i].Address = UNDEF)]
  ELSE [v |-> UNDEF, lab |-> AddLabel(name, labv), fatal |-> FALSE]

EvalOperand(e, labv, pass) ==
  IF e.t = "num" THEN [v |-> e.n, lab |-> labv, fatal |-> FALSE]
  ELSE EvalSymValue(e.s, labv, pass)

\* DefineLabel without the phase error of the final pass
DefineLabelNoPhase(name, labv, pcv, pass, boc) ==
  LET j == LabelIndex(name, labv) IN
  IF j = 0
  THEN [lab |-> Append(labv, NewLabel(name, pcv)), BOC |-> boc, fatal |-> FALSE]
  ELSE IF labv[j].Address = UNDEF
  THEN [lab |-> [labv EXCEPT ![j].Address = pcv], BOC |-> boc, fatal |-> FALSE]
  ELSE IF labv[j].Address # pcv /\ labv[j].Locked = 0 /\ pass > 1 /\ pass < MaxPass
  THEN [lab |-> [labv EXCEPT ![j].Address = pcv],
        BOC |-> [boc EXCEPT ![pass - 1] = @ + 1], fatal |-> FALSE]
  ELSE [lab |-> labv, BOC |-> boc,
        fatal |-> labv[j].Address # pcv /\ labv[j].Locked = 0 /\ pass = 1]

\* DefineLabel, branch of a bare position label
DefineLabelPos(name, labv, pcv, pass, boc) ==
  LET j == LabelIndex(name, labv) IN
  IF j = 0
  THEN [lab |-> Append(labv, NewLabel(name, pcv)), BOC |-> boc, fatal |-> FALSE]
  ELSE IF labv[j].Address = UNDEF
  THEN [lab |-> [labv EXCEPT ![j].Address = pcv], BOC |-> boc, fatal |-> FALSE]
  ELSE IF labv[j].Address # pcv /\ labv[j].Locked = 0
  THEN IF pass = 1
       THEN [lab |-> labv, BOC |-> boc, fatal |-> TRUE]
       ELSE IF pass < MaxPass
       THEN [lab |-> [labv EXCEPT ![j].Address = pcv],
             BOC |-> [boc EXCEPT ![pass - 1] = @ + 1], fatal |-> FALSE]
       ELSE [lab |-> labv, BOC |-> boc, fatal |-> TRUE]
  ELSE [lab |-> labv, BOC |-> boc, fatal |-> FALSE]

\* NAME = expr with a conflict that is fatal in every pass
DefineLabelAssignStrict(name, e, labv, pass, locked) ==
  LET j0   == LabelIndex(name, labv)
      lab1 == IF j0 = 0 THEN AddLabel(name, labv) ELSE labv
      j    == IF j0 = 0 THEN Len(lab1) ELSE j0
      r    == EvalOperand(e, lab1, pass)
      lab2 == r.lab
      lab3 == IF lab2[j].Address = UNDEF THEN [lab2 EXCEPT ![j].Address = r.v]
              ELSE lab2
      bad  == /\ lab2[j].Address # UNDEF
              /\ lab2[j].Address # r.v
              /\ lab2[j].Locked = 0
      lab4 == IF locked # 0 THEN [lab3 EXCEPT ![j].Locked = locked] ELSE lab3
  IN [lab |-> lab4, fatal |-> r.fatal \/ bad]

\* DefineLabel, branch NAME = expr
DefineLabelAssign(name, e, labv, pass, locked) ==
  LET j0   == LabelIndex(name, labv)
      lab1 == IF j0 = 0 THEN AddLabel(name, labv) ELSE labv
      j    == IF j0 = 0 THEN Len(lab1) ELSE j0
      r    == EvalOperand(e, lab1, pass)
      lab2 == r.lab
      lab3 == IF lab2[j].Address = UNDEF THEN [lab2 EXCEPT ![j].Address = r.v]
              ELSE IF lab2[j].Address # r.v /\ lab2[j].Locked = 0 /\ pass < MaxPass
              THEN [lab2 EXCEPT ![j].Address = r.v]
              ELSE lab2
      bad  == /\ lab2[j].Address # UNDEF
              /\ lab2[j].Address # r.v
              /\ lab2[j].Locked = 0
              /\ ~(pass < MaxPass)
      lab4 == IF locked # 0 THEN [lab3 EXCEPT ![j].Locked = locked] ELSE lab3
  IN [lab |-> lab4, fatal |-> r.fatal \/ bad]

\* DefineLabel, branch NAME .BSS expr: the label gets the BSS counter,
\* which then advances by the size
DefineLabelBSS(name, e, labv, pass, bssv) ==
  LET r    == EvalOperand(e, labv, pass)
      j0   == LabelIndex(name, r.lab)
      lab1 == IF j0 = 0 THEN AddLabel(name, r.lab) ELSE r.lab
      j    == IF j0 = 0 THEN Len(lab1) ELSE j0
      bad  == lab1[j].Address # UNDEF /\ lab1[j].Address # bssv
      lab2 == IF lab1[j].Address = UNDEF THEN [lab1 EXCEPT ![j].Address = bssv]
              ELSE lab1
  IN [lab |-> lab2, bss |-> bssv + r.v, fatal |-> r.fatal \/ bad]

\* the label in front of a statement, handled before the statement itself
PreLabel(ln) ==
  IF ln.lbl = "" THEN [lab |-> lab, BOC |-> BOC, fatal |-> FALSE]
  ELSE DefineLabelPos(ln.lbl, lab, pc, Pass, BOC)

\* ------------------------------------------------------------------------
\* Integer helpers for the C operators
\* ------------------------------------------------------------------------
Lo8(v) == v % 256
\* v & 0xff, also the value an unsigned char keeps

Shr8(v) == v \div 256
\* v >> 8 on a signed int (arithmetic shift)

And16(v) == v % 65536
\* v & 0xffff

Or3(o) == o - (o % 4) + 3
\* oc | 3

RECURSIVE BitAnd(_, _)
BitAnd(a, b) ==
  IF a = 0 \/ b = 0 THEN 0
  ELSE (a % 2) * (b % 2) + 2 * BitAnd(a \div 2, b \div 2)

\* ------------------------------------------------------------------------
\* The image
\* ------------------------------------------------------------------------
ROMAt(rom, a) == IF a \in DOMAIN rom THEN rom[a] ELSE ROM_Fill

InROM(a) == a >= 0 /\ a < ROMSIZE

Addrs(a, n) == {a + i : i \in 0..(n - 1)}

\* ROM[a+i] = bytes[i] for i = 0 .. l-1
Store(rom, a, bytes) ==
  [x \in DOMAIN rom \cup Addrs(a, Len(bytes)) |->
     IF x \in Addrs(a, Len(bytes)) THEN Lo8(bytes[x - a + 1]) ELSE rom[x]]

\* ------------------------------------------------------------------------
\* Instruction tables (the mnemonics used by the explored programs)
\* ------------------------------------------------------------------------
Imp == [NOP |-> [CPU |-> 0, Opc |-> 234],
        RTS |-> [CPU |-> 0, Opc |-> 96],
        PHX |-> [CPU |-> 1, Opc |-> 218]]

Rel == [BNE |-> [CPU |-> 0, Opc |-> 208],
        BEQ |-> [CPU |-> 0, Opc |-> 240]]

\*  Opc[am+1] for am = 0..8:  DP  Abs DP,X Ab,X (,X)   # (),Y Ab,Y (),Z
Gen == [LDA |-> [CPU |-> 0, Opc |-> <<165, 173, 181, 189, 161, 169, 177, 185, 178>>],
        JMP |-> [CPU |-> 0, Opc |-> <<-1, 76, -1, -1, 124, -1, -1, -1, 108>>]]

JMPIndex == "JMP"

\* IsInstruction: opcode, address mode and Gen index of a mnemonic, oc = -1
\* when the mnemonic is not one of the selected CPU
IsInstruction(mne, oe, cpu) ==
  IF ~oe /\ mne \in DOMAIN Imp /\ BitAnd(Imp[mne].CPU, cpu) = 0
  THEN [oc |-> Imp[mne].Opc, am |-> AM_Impl, GenIndex |-> ""]
  ELSE IF mne \in DOMAIN Rel /\ BitAnd(Rel[mne].CPU, cpu) = 0
  THEN [oc |-> Rel[mne].Opc, am |-> AM_Rela, GenIndex |-> ""]
  ELSE IF mne \in DOMAIN Gen /\ BitAnd(Gen[mne].CPU, cpu) = 0
  THEN [oc |-> 256, am |-> AM_None, GenIndex |-> mne]
  ELSE [oc |-> -1, am |-> AM_None, GenIndex |-> ""]

\* AddressMode of the operand forms '#expr' and 'expr'
AddressMode(imm) == IF imm THEN [am |-> AM_Imme, il |-> 2] ELSE [am |-> AM_Abso, il |-> 3]

\* SplitOperand for a Gen mnemonic: address mode, length and opcode
SplitOperand(g, imm) ==
  LET m  == AddressMode(imm)
      to == Gen[g].Opc[m.am + 1]
  IN IF to = -1 /\ m.am = AM_Abso
     THEN [am |-> AM_Dpag, il |-> 2, oc |-> Gen[g].Opc[AM_Dpag + 1]]
     ELSE [am |-> m.am, il |-> m.il, oc |-> to]

\* AdjustOpcode: JMP always uses a 16 bit address
AdjustOpcode(g, il) == IF g = JMPIndex THEN 3 ELSE il

\* ------------------------------------------------------------------------
\* Data directives
\* ------------------------------------------------------------------------
RECURSIVE BitOr(_, _)
BitOr(a, b) ==
  IF a = 0 THEN b
  ELSE IF b = 0 THEN a
  ELSE (IF a % 2 = 1 \/ b % 2 = 1 THEN 1 ELSE 0) + 2 * BitOr(a \div 2, b \div 2)

\* WordBuffer with the byte order of .WORD and .BIGW exchanged
RECURSIVE WordBufferSwapped(_, _, _, _, _)
WordBufferSwapped(items, bigendian, labv, pass, buf) ==
  IF items = <<>> THEN [buf |-> buf, lab |-> labv, fatal |-> Len(buf) < 1]
  ELSE LET r == EvalOperand(Head(items), labv, pass)
           v == r.v
       IN IF r.fatal \/ (v = UNDEF /\ pass = MaxPass)
          THEN [buf |-> buf, lab |-> r.lab, fatal |-> TRUE]
          ELSE WordBufferSwapped(Tail(items), bigendian, r.lab, pass,
                 IF bigendian = 1
                 THEN buf \o <<Lo8(v), Lo8(Shr8(v))>>
                 ELSE buf \o <<Lo8(Shr8(v)), Lo8(v)>>)

\* ParseWordData: the byte buffer of a .WORD / .BIGW list
RECURSIVE WordBuffer(_, _, _, _, _)
WordBuffer(items, bigendian, labv, pass, buf) ==
  IF items = <<>> THEN [buf |-> buf, lab |-> labv, fatal |-> Len(buf) < 1]
  ELSE LET r == EvalOperand(Head(items), labv, pass)
           v == r.v
       IN IF r.fatal \/ (v = UNDEF /\ pass = MaxPass)
          THEN [buf |-> buf, lab |-> r.lab, fatal |-> TRUE]
          ELSE WordBuffer(Tail(items), bigendian, r.lab, pass,
                 IF bigendian = 1
                 THEN buf \o <<Lo8(Shr8(v)), Lo8(v)>>
                 ELSE buf \o <<Lo8(v), Lo8(Shr8(v))>>)

\* ParseASCII: the bytes of the text between two string delimiters
RECURSIVE ParseASCII(_)
ParseASCII(text) ==
  IF text = <<>> THEN <<>>
  ELSE IF Head(text) = 92 /\ Len(text) > 1
  THEN LET c == text[2]
           b == IF c = 114 THEN 13
                ELSE IF c = 110 THEN 10
                ELSE IF c = 97 THEN 7
                ELSE IF c = 101 THEN 27
                ELSE IF c = 48 THEN 0
                ELSE c
       IN <<b>> \o ParseASCII(SubSeq(text, 3, Len(text)))
  ELSE IF Head(text) = 39 /\ Len(text) > 1 /\ text[2] = 39
  THEN <<39>> \o ParseASCII(SubSeq(text, 3, Len(text)))
  ELSE <<Head(text)>> \o ParseASCII(Tail(text))

\* the '^' after a string sets bit 7 of the last byte of the buffer
SetBit7(buf) == [buf EXCEPT ![Len(buf)] = BitOr(@, 128)]

\* re-encoding of the bytes of one string for .PET and .DISP
Recode(b, Charset) ==
  IF Charset = PETSCII
  THEN IF b >= 65 /\ b <= 90 THEN BitOr(b, 128)
       ELSE IF b >= 97 /\ b <= 122 THEN b - 32
       ELSE b
  ELSE IF Charset = SCREENCODE
  THEN IF b >= 97 /\ b <= 122 THEN b - 96 ELSE b
  ELSE b

\* the packed and hashed forms <"XXX"  >"XXX"  #"XXX" of three characters
PackedLow(t) == Lo8(BitOr((t[2] - 63) * 64, (t[3] - 63) * 2))

PackedHigh(t) == Lo8(BitOr((t[1] - 63) * 8, (t[2] - 63) \div 4))

Hashed(t) == (t[3] - 64) + 27 * ((t[2] - 64) + 27 * (t[1] - 64))

\* ParseByteData: the byte buffer of a .BYTE list.  A packed or hashed item
\* is stored at ByteBuffer[0] and sets the length l to 1 (or 2).
RECURSIVE ByteBuffer(_, _, _, _, _)
ByteBuffer(items, Charset, labv, pass, buf) ==
  IF items = <<>> THEN [buf |-> buf, lab |-> labv, fatal |-> Len(buf) < 1]
  ELSE LET it == Head(items) IN
    IF it.t = "pack" /\ it.pre = "<"
    THEN ByteBuffer(Tail(items), Charset, labv, pass, <<PackedLow(it.text)>>)
    ELSE IF it.t = "pack" /\ it.pre = ">"
    THEN ByteBuffer(Tail(items), Charset, labv, pass, <<PackedHigh(it.text)>>)
    ELSE IF it.t = "pack"
    THEN ByteBuffer(Tail(items), Charset, labv, pass,
                    <<Lo8(Hashed(it.text)), Lo8(Shr8(Hashed(it.text)))>>)
    ELSE IF it.t = "str"
    THEN LET raw == ParseASCII(it.text)
             all == IF it.hib /\ Len(buf \o raw) > 0 THEN SetBit7(buf \o raw) ELSE buf \o raw
             out == [x \in 1..Len(all) |->
                       IF x > Len(buf) THEN Recode(all[x], Charset) ELSE all[x]]
         IN ByteBuffer(Tail(items), Charset, labv, pass, out)
    ELSE LET r == EvalOperand(it.e, labv, pass)
             v == IF r.v = UNDEF THEN UNDEF
                  ELSE IF it.pre = "<" THEN Lo8(r.v)
                  ELSE IF it.pre = ">" THEN Shr8(r.v)
                  ELSE r.v
         IN IF r.fatal \/ (v = UNDEF /\ pass = MaxPass)
            THEN [buf |-> buf, lab |-> r.lab, fatal |-> TRUE]
            ELSE ByteBuffer(Tail(items), Charset, r.lab, pass,
                   IF it.pre = "" /\ (v > 255 \/ v < -127)
                   THEN buf \o <<Lo8(v), Lo8(Shr8(v))>>
                   ELSE buf \o <<Lo8(v)>>)

\* lab[j].Bytes = l for the labels that lie on the address of the data
SetBytes(labv, pcv, l) ==
  [j \in 1..Len(labv) |->
     IF labv[j].Address = pcv THEN [labv[j] EXCEPT !.Bytes = l] ELSE labv[j]]

\* ParseFillData: multiplier and fill byte of .FILL m (v)
FillData(m, v, labv, pass) ==
  LET rm == EvalOperand(m, labv, pass)
      rv == EvalOperand(v, rm.lab, pass)
  IN IF rm.fatal
     THEN [m |-> 0, v |-> 0, lab |-> rm.lab, fatal |-> TRUE, why |-> ""]
     ELSE IF rm.v < 0 \/ rm.v > 32767
     THEN [m |-> 0, v |-> 0, lab |-> rm.lab, fatal |-> TRUE,
           why |-> "Illegal FILL multiplier"]
     ELSE [m |-> rm.v, v |-> Lo8(rv.v), lab |-> rv.lab, fatal |-> rv.fatal, why |-> ""]

CPU_Names == <<"6502", "65SC02", "65C02", "45GS02", "65816">>

RECURSIVE Pow2(_)
Pow2(i) == IF i = 0 THEN 1 ELSE 2 * Pow2(i - 1)

\* ParseCPUData: CPU_Type is 1 << i for the i-th name, 0 for an unknown name
CPUOf(name) ==
  IF \E i \in 1..Len(CPU_Names) : CPU_Names[i] = name
  THEN Pow2((CHOOSE i \in 1..Len(CPU_Names) : CPU_Names[i] = name) - 1)
  ELSE 0

\* ------------------------------------------------------------------------
\* GenerateCode
\* ------------------------------------------------------------------------
\* the distance counted from the end of a 3-byte instruction
RelOffset3(target, pcv) == target - (pcv + 3)

\* v -= (pc + 2): the distance of a relative branch
RelOffset(target, pcv) == target - (pcv + 2)

\* NextPC advancing by one byte less than the instruction occupies
NextPCShort(pcv, il) == IF pcv + il > 65535 THEN pcv ELSE pcv + il - 1

\* NextPC wrapping around at 64K
NextPCWrap(pcv, il) == (pcv + il) % 65536

\* the end of GenerateCode: pc stays where it is when pc+il > 0xffff
NextPC(pcv, il) == IF pcv + il > 65535 THEN pcv ELSE pcv + il

\* the check with the limit of GenerateCode
PCOverflowFFFF(pcv) == pcv > 65535 /\ pcv # UNDEF

\* the check at the end of IsPseudo
PCOverflow(pcv) == pcv > 65536 /\ pcv # UNDEF

NoCode == [fatal |-> TRUE, lab |-> <<>>, il |-> 0, oc |-> 0, v |-> 0, lock |-> -1]

\* operand evaluation and choice of opcode and length, for a line at pcv
\* lock is the opcode stored at ROM[pcv] in the pass before the last, or -1
Encode(ln, ins, labv, pcv, pass, rom, cpu, bopt, bpv) ==
  IF ins.am = AM_Impl
  THEN [fatal |-> FALSE, lab |-> labv, il |-> 1, oc |-> ins.oc, v |-> 0, lock |-> -1]
  ELSE IF ins.am = AM_Rela /\ bopt = 1 /\ cpu = CPU_45GS02
  THEN LET r    == EvalOperand(ln.e, labv, pass)
           v1   == IF r.v # UNDEF THEN RelOffset(r.v, pcv) ELSE UNDEF
           long == v1 = UNDEF \/ v1 < -128 \/ v1 > 127
           oc1  == IF long THEN Or3(ins.oc) ELSE ins.oc
           v2   == IF v1 # UNDEF /\ long THEN And16(v1) ELSE v1
           ocL  == IF pass = MaxPass - 1 THEN oc1 ELSE ROMAt(rom, pcv)
       IN IF pass = MaxPass
          THEN [fatal |-> r.fatal \/ v2 = UNDEF, lab |-> r.lab,
                il |-> IF ocL % 4 = 3 THEN 3 ELSE 2, oc |-> ocL,
                v |-> IF ocL % 4 = 3 THEN And16(v2) ELSE v2, lock |-> -1]
          ELSE [fatal |-> r.fatal, lab |-> r.lab, il |-> IF long THEN 3 ELSE 2,
                oc |-> oc1, v |-> v2,
                lock |-> IF pass = MaxPass - 1 THEN oc1 ELSE -1]
  ELSE IF ins.am = AM_Rela
  THEN LET r  == EvalOperand(ln.e, labv, pass)
           v1 == IF r.v # UNDEF THEN RelOffset(r.v, pcv) ELSE UNDEF
       IN [fatal |-> r.fatal \/ (pass = MaxPass /\ (v1 = UNDEF \/ v1 < -128 \/ v1 > 127)),
           lab |-> r.lab, il |-> 2, oc |-> ins.oc, v |-> v1, lock |-> -1]
  ELSE LET g  == ins.GenIndex
           sp == SplitOperand(g, ln.imm)
           r  == EvalOperand(ln.e, labv, pass)
           w  == r.v - bpv * 256
           narrow == /\ sp.am = AM_Abso
                     /\ w >= 0 /\ w < 256
                     /\ Gen[g].Opc[AM_Dpag + 1] >= 0
       IN IF sp.oc < 0 \/ sp.oc > 255 \/ r.fatal
          THEN NoCode
          ELSE IF sp.am = AM_Imme /\ pass = MaxPass /\ (r.v < -128 \/ r.v > 255)
          THEN NoCode
          ELSE IF sp.am = AM_Dpag
          THEN [fatal |-> (w < -128 \/ w > 255), lab |-> r.lab,
                il |-> AdjustOpcode(g, 2), oc |-> sp.oc, v |-> w, lock |-> -1]
          ELSE IF narrow
          THEN [fatal |-> FALSE, lab |-> r.lab, il |-> AdjustOpcode(g, sp.il - 1),
                oc |-> Gen[g].Opc[AM_Dpag + 1], v |-> w, lock |-> -1]
          ELSE [fatal |-> FALSE, lab |-> r.lab, il |-> AdjustOpcode(g, sp.il),
                oc |-> sp.oc, v |-> r.v, lock |-> -1]

\* Insert with the operand stored high byte first
InsertBig(oc, v, il, bpv) ==
  [bytes |-> <<oc>> \o (IF il >= 3 THEN <<Shr8(v)>> ELSE <<>>)
                   \o (IF il >= 2 THEN <<Lo8(v)>> ELSE <<>>),
   err |-> 0]

\* the bytes the final pass inserts for opcode oc, operand v and length il,
\* and the number of 'Not a byte value' errors (0 or 1)
Insert(oc, v, il, bpv) ==
  LET lo  == Lo8(v)
      hi0 == Shr8(v)
      hi  == IF hi0 = bpv /\ il < 3 THEN 0 ELSE hi0
      v1  == IF hi0 = bpv /\ il < 3 THEN lo ELSE v
  IN [bytes |-> <<oc>> \o (IF il >= 2 THEN <<lo>> ELSE <<>>)
                       \o (IF il >= 3 THEN <<hi>> ELSE <<>>),
      err |-> IF il < 3 /\ (v1 < -128 \/ v1 > 255) THEN 1 ELSE 0]

\* ------------------------------------------------------------------------
\* Inputs
\* ------------------------------------------------------------------------
\* the lines a generated program body is made of
Alphabet ==
  { LabelLine("L"),
    AssignLine("A", Num(16)),
    ImpLine("", "NOP"),
    InsLine("", "JMP", FALSE, Sym("L")),
    InsLine("", "LDA", FALSE, Sym("A")),
    InsLine("", "BNE", FALSE, Sym("L")),
    ByteLine("", <<ExprItem("", Num(1)), ExprItem("", Num(2))>>),
    ByteLine("", <<ExprItem("", Num(1)), PackItem("<", <<66, 82, 75>>)>>),
    ByteLine("", <<StrItem(<<65, 66>>, FALSE), ExprItem("", Num(300))>>),
    WordLine("", ".WORD", <<Num(4660), Sym("L")>>),
    WordLine("", ".BIGW", <<Num(4660)>>),
    FillLine("", Num(0), Num(0)),
    FillLine("", Num(2), Num(7)),
    OrgLine("*", Num(2048)) }

RECURSIVE Bodies(_)
Bodies(n) ==
  IF n = 0 THEN {<<>>}
  ELSE LET B == Bodies(n - 1)
       IN B \cup {Append(b, x) : b \in {c \in B : Len(c) = n - 1}, x \in Alphabet}

Origins == {2048, 65533}

\* 'bsa file' on 6502 code, and 'bsa -b file' on 45GS02 code
Generated ==
  { [src |-> <<OrgLine("*", Num(o))>> \o b, b |-> 0, i |-> 0, D |-> <<>>] :
      o \in Origins, b \in Bodies(MaxLines) }
  \cup
  { [src |-> <<CpuLine("45GS02"), OrgLine(".ORG", Num(o))>> \o b, b |-> 1, i |-> 0, D |-> <<>>] :
      o \in Origins, b \in Bodies(MaxLines) }

\* *= $0800 / JMP END / .BYTE 0,0 / END RTS
ForwardRef ==
  <<OrgLine("*", Num(2048)), InsLine("", "JMP", FALSE, Sym("END")),
    ByteLine("", <<ExprItem("", Num(0)), ExprItem("", Num(0))>>),
    ImpLine("END", "RTS")>>

\* *= $0800 / LDA A1 / A1 = A2 / ... / A(n-1) = An / An = $10
ANames ==
  << "A1", "A2", "A3", "A4", "A5", "A6", "A7", "A8", "A9", "A10",
     "A11", "A12", "A13", "A14", "A15", "A16", "A17", "A18", "A19",
     "A20", "A21" >>

AName(i) == ANames[i]

ChainDefs(n) ==
  [i \in 1..n |-> AssignLine(AName(i), IF i < n THEN Sym(AName(i + 1)) ELSE Num(16))]

Chain(n) ==
  <<OrgLine("*", Num(2048)), InsLine("", "LDA", FALSE, Sym(AName(1)))>> \o ChainDefs(n)

\* the same with a position label END between the instruction and the chain
ChainEnd(n) ==
  <<OrgLine("*", Num(2048)), InsLine("", "LDA", FALSE, Sym(AName(1))), LabelLine("END")>>
  \o ChainDefs(n)

\* bsa -DL=16 file, the file defining L as a position label
LockedSrc ==
  <<OrgLine("*", Num(2048)), ImpLine("", "NOP"), LabelLine("L"),
    InsLine("", "LDA", FALSE, Sym("L"))>>

\* *= $0800 / .BYTE 1,2 / *= $0800 / .BYTE 1,2
Overlap ==
  <<OrgLine("*", Num(2048)),
    ByteLine("", <<ExprItem("", Num(1)), ExprItem("", Num(2))>>),
    OrgLine("*", Num(2048)),
    ByteLine("", <<ExprItem("", Num(1)), ExprItem("", Num(2))>>)>>

\* & = $0340 / X .BSS 2 / .BSS 4 / Y .BSS 1 / *= $0800 / LDA Y
BssProgram ==
  <<SetBSSLine(Num(832)), BSSLabelLine("X", Num(2)), BSSLine(Num(4)),
    BSSLabelLine("Y", Num(1)), OrgLine("*", Num(2048)),
    InsLine("", "LDA", FALSE, Sym("Y"))>>

\* *= $0800 / X .BSS 2 / NOP
BssNoOrigin ==
  <<OrgLine("*", Num(2048)), BSSLabelLine("X", Num(2)), ImpLine("", "NOP")>>

\* *= $0800 / L / NOP / L
DupLabel ==
  <<OrgLine("*", Num(2048)), LabelLine("L"), ImpLine("", "NOP"), LabelLine("L")>>

\* *= $0800 / A = 1 / A = 2 / LDA A
Reassign ==
  <<OrgLine("*", Num(2048)), AssignLine("A", Num(1)), AssignLine("A", Num(2)),
    InsLine("", "LDA", FALSE, Sym("A"))>>

\* *= $0800 / .FILL N (0) / N = 2
FillForward ==
  <<OrgLine("*", Num(2048)), FillLine("", Sym("N"), Num(0)), AssignLine("N", Num(2))>>

\* & = $0340 / .BSS N / N = 2
BssForward ==
  <<SetBSSLine(Num(832)), BSSLine(Sym("N")), AssignLine("N", Num(2))>>

\* *= $0800 / #if 0 / #if 1 / NOP / #endif / #endif / RTS
CondNested ==
  <<OrgLine("*", Num(2048)), IfLine(Num(0)), IfLine(Num(1)), ImpLine("", "NOP"),
    EndifLine, EndifLine, ImpLine("", "RTS")>>

\* *= $0800 / D = 1 / #ifdef D / NOP / #else / RTS / #endif
CondElse ==
  <<OrgLine("*", Num(2048)), AssignLine("D", Num(1)), IfdefLine(Sym("D")),
    ImpLine("", "NOP"), ElseLine, ImpLine("", "RTS"), EndifLine>>

\* *= $0800 / Z = 0 / #if Z / NOP / #else / RTS / #endif
IfZero ==
  <<OrgLine("*", Num(2048)), AssignLine("Z", Num(0)), IfLine(Sym("Z")),
    ImpLine("", "NOP"), ElseLine, ImpLine("", "RTS"), EndifLine>>

\* *= $0800 / #ifdef FOO / NOP / #else / RTS / #endif, FOO defined nowhere
IfdefUndefined ==
  <<OrgLine("*", Num(2048)), IfdefLine(Sym("FOO")),
    ImpLine("", "NOP"), ElseLine, ImpLine("", "RTS"), EndifLine>>

\* the same with #if FOO
IfUndefined ==
  <<OrgLine("*", Num(2048)), IfLine(Sym("FOO")),
    ImpLine("", "NOP"), ElseLine, ImpLine("", "RTS"), EndifLine>>

\* n nested '#if 1', a NOP inside, n '#endif'
Nest(n) ==
  <<OrgLine("*", Num(2048))>> \o [i \in 1..n |-> IfLine(Num(1))]
  \o <<ImpLine("", "NOP")>> \o [i \in 1..n |-> EndifLine]

\* #endif without #if
EndifAlone == <<OrgLine("*", Num(2048)), EndifLine>>

LoadMacro == MacroLine("LOAD", <<Sym("P1")>>, <<InsLine("", "LDA", FALSE, Sym("P1"))>>)

RetMacro == MacroLine("RET", <<>>, <<ImpLine("", "RTS")>>)

TenNames == <<"P1", "P2", "P3", "P4", "P5", "P6", "P7", "P8", "P9", "P10">>

TenMacro == MacroLine("TEN", [i \in 1..10 |-> Sym(TenNames[i])], <<InsLine("", "LDA", FALSE, Sym("P2"))>>)

\* MACRO LOAD(P1) / LDA P1 / ENDMAC / MACRO RET() / RTS / ENDMAC /
\* *= $0800 / V = 5 / LOAD(V) / RET() / RET / LOAD(7)
MacroCalls ==
  <<LoadMacro, RetMacro, OrgLine("*", Num(2048)), AssignLine("V", Num(5)),
    CallLine("LOAD", "()", <<Sym("V")>>), CallLine("RET", "()", <<>>),
    CallLine("RET", "", <<>>), CallLine("LOAD", "()", <<Num(7)>>)>>

\* a call of the macro m with the numbers 1..n as arguments
MacroCount(m, n) ==
  <<m, OrgLine("*", Num(2048)), CallLine(m.lbl, "()", [i \in 1..n |-> Num(i)])>>

\* *= $0800 / NOP / RTS / .STORE $0800,2,"a" / .LOAD / .STORE $0801,1,"b"
StoreThenLoad ==
  <<OrgLine("*", Num(2048)), ImpLine("", "NOP"), ImpLine("", "RTS"),
    StoreLine(Num(2048), Num(2), "a"), LoadLine, StoreLine(Num(2049), Num(1), "b")>>

\* *= $0800 / NOP / RTS / .STORE $0800,2,"a"
StoreOnly ==
  <<OrgLine("*", Num(2048)), ImpLine("", "NOP"), ImpLine("", "RTS"),
    StoreLine(Num(2048), Num(2), "a")>>

\* *= $0800 / NOP / .STORE $FFFF,$0102,"x": the region ends behind ROM
StoreFar ==
  <<OrgLine("*", Num(2048)), ImpLine("", "NOP"), StoreLine(Num(65535), Num(258), "x")>>

\* *= $0800 / NOP / .END / RTS / L
EndProgram ==
  <<OrgLine("*", Num(2048)), ImpLine("", "NOP"), EndLine, ImpLine("", "RTS"),
    LabelLine("L")>>

\* *= $0800 / PHX / NOP
Gated == <<OrgLine("*", Num(2048)), ImpLine("", "PHX"), ImpLine("", "NOP")>>

\* bsa -b on: .CPU 45GS02 / *= $0800 / L / LDA A1 / BNE L / BEQ FAR /
\* *= $0900 / FAR / A1 = A2 / ... / A19 = $10
BranchShift ==
  <<CpuLine("45GS02"), OrgLine("*", Num(2048)), LabelLine("L"),
    InsLine("", "LDA", FALSE, Sym(AName(1))), InsLine("", "BNE", FALSE, Sym("L")),
    InsLine("", "BEQ", FALSE, Sym("FAR")), OrgLine("*", Num(2304)), LabelLine("FAR")>>
  \o ChainDefs(19)

\* MACRO PAIR() / NOP / RTS / ENDMAC / *= $0800 / PAIR() / NOP
PairMacro == MacroLine("PAIR", <<>>, <<ImpLine("", "NOP"), ImpLine("", "RTS")>>)

PairCall ==
  <<PairMacro, OrgLine("*", Num(2048)), CallLine("PAIR", "()", <<>>), ImpLine("", "NOP")>>

\* *= $0800 / _X = 1 / MODULE FOO / _X = 2 / ENDMOD / LDA _X
ModuleProgram ==
  <<OrgLine("*", Num(2048)), AssignLine("_X", Num(1)), ModuleLine("FOO"),
    AssignLine("_X", Num(2)), EndModLine, InsLine("", "LDA", FALSE, Sym("_X"))>>

\* .BYTE 1,2 in a file without any origin
NoOrigin == <<ByteLine("", <<ExprItem("", Num(1)), ExprItem("", Num(2))>>)>>

\* bsa -b on: .CPU 45GS02 / *= $0800 / N / LDA A1 / LDA A1 / BNE N / BNE T /
\* *= $0900 / T / A1 = A2 / ... / A19 = $10
ShortLock ==
  <<CpuLine("45GS02"), OrgLine("*", Num(2048)), LabelLine("N"),
    InsLine("", "LDA", FALSE, Sym(AName(1))), InsLine("", "LDA", FALSE, Sym(AName(1))),
    InsLine("", "BNE", FALSE, Sym("N")), InsLine("", "BNE", FALSE, Sym("T")),
    OrgLine("*", Num(2304)), LabelLine("T")>>
  \o ChainDefs(19)

\* MACRO RET() / RTS / ENDMAC / MACRO OUTER() / RET() / NOP / ENDMAC /
\* *= $0800 / OUTER() / NOP
OuterMacro ==
  MacroLine("OUTER", <<>>, <<CallLine("RET", "()", <<>>), ImpLine("", "NOP")>>)

NestedCall ==
  <<RetMacro, OuterMacro, OrgLine("*", Num(2048)), CallLine("OUTER", "()", <<>>),
    ImpLine("", "NOP")>>

\* programs assembled without options
Programs ==
  {NestedCall, NoOrigin, ModuleProgram, PairCall, Gated, <<CpuLine("65C02")>> \o Gated,
   EndProgram,
   StoreThenLoad, StoreOnly, StoreFar,
   MacroCalls, MacroCount(LoadMacro, 0), MacroCount(LoadMacro, 2),
   MacroCount(RetMacro, 1), MacroCount(TenMacro, 9), MacroCount(TenMacro, 10),
   MacroCount(TenMacro, 11),
   BssProgram, BssNoOrigin, DupLabel, Reassign, FillForward, BssForward,
   CondNested, CondElse, IfZero, IfdefUndefined, IfUndefined,
   Nest(9), Nest(10), EndifAlone}

Plain(p) == [src |-> p, b |-> 0, i |-> 0, D |-> <<>>]

\* *= $0800 / FOO = 1 / foo = 2 / LDA FOO / LDA foo
TwoCases ==
  <<OrgLine("*", Num(2048)), AssignLine("FOO", Num(1)), AssignLine("foo", Num(2)),
    InsLine("", "LDA", FALSE, Sym("FOO")), InsLine("", "LDA", FALSE, Sym("foo"))>>

\* *= $0800 / FOO = 1 / LDA foo
OtherCase ==
  <<OrgLine("*", Num(2048)), AssignLine("FOO", Num(1)),
    InsLine("", "LDA", FALSE, Sym("foo"))>>

\* bsa file, bsa -i file, and the files with .CASE in the first line
CaseSetups ==
  { [src |-> p, b |-> 0, i |-> i, D |-> <<>>] :
      p \in {TwoCases, OtherCase, <<CaseLine("-")>> \o TwoCases,
             <<CaseLine("-")>> \o OtherCase, <<CaseLine("+")>> \o TwoCases,
             <<CaseLine("+")>> \o OtherCase, <<CaseLine("")>>},
      i \in {0, 1} }

Setups ==
  Generated
  \cup { Plain(p) : p \in Programs }
  \cup CaseSetups
  \cup { [src |-> Overlap, b |-> 0, i |-> 0, D |-> <<>>] }
  \cup { [src |-> BranchShift, b |-> 1, i |-> 0, D |-> <<>>] }
  \cup { [src |-> ShortLock, b |-> 1, i |-> 0, D |-> <<>>] }
  \cup { [src |-> ForwardRef, b |-> 0, i |-> 0, D |-> <<>>] }
  \cup { [src |-> Chain(n), b |-> 0, i |-> 0, D |-> <<>>] : n \in 1..MaxChain }
  \cup { [src |-> ChainEnd(n), b |-> 0, i |-> 0, D |-> <<>>] : n \in 1..MaxChain }
  \cup { [src |-> LockedSrc, b |-> 0, i |-> 0, D |-> <<[name |-> "L", v |-> 16]>>] }

RECURSIVE DefineAll(_, _)
DefineAll(ds, labv) ==
  IF ds = <<>> THEN labv
  ELSE DefineAll(Tail(ds), DefineLabelAssign(Head(ds).name, Num(Head(ds).v), labv, 0, 1).lab)

\* the identifiers of the explored programs that begin with '.' or '_'
LocalNames == {"_X", ".X"}

\* GetSymbol: a local identifier gets the scope in front, unless the scope
\* is the empty string
GetSymbol(name, scope) ==
  IF name \in LocalNames /\ scope # "" THEN scope \o name ELSE name

QualifyExpr(e, scope) == IF e.t = "sym" THEN [e EXCEPT !.s = GetSymbol(@, scope)] ELSE e

QualifyItem(x, scope) ==
  IF x.t = "sym" THEN QualifyExpr(x, scope)
  ELSE IF x.t = "expr" THEN [x EXCEPT !.e = QualifyExpr(@, scope)]
  ELSE x

\* the line as the handlers see its symbols: every symbol of a line is read
\* by GetSymbol under the scope that is active when the line is parsed.  The
\* lines of a macro definition are stored as they are written
Qualify(ln, scope) ==
  IF ln.k \in {"macro", "call"} THEN ln
  ELSE [ln EXCEPT !.lbl = GetSymbol(@, scope),
                  !.e = QualifyExpr(@, scope),
                  !.e2 = QualifyExpr(@, scope),
                  !.items = [i \in DOMAIN @ |-> QualifyItem(@[i], scope)]]

NullPointer == [m |-> 0, i |-> 0]

NoLast == [li |-> 0, k |-> "", pass |-> 0, pc0 |-> -1, n |-> 0, len |-> -1, err0 |-> 0,
           why |-> ""]

NoLog == [pass |-> {}, blk |-> {}, dup |-> FALSE, dupBlk |-> FALSE, ovf |-> FALSE]

\* no operand text is being evaluated
EvalOff == [st |-> "off", text |-> <<>>, p |-> 0, stack |-> <<>>, v |-> 0, spin |-> 0]

\* the start of main for the source file and the options of the setup c
InitWith(c) ==
  /\ src = c.src
  /\ BranchOpt = c.b
  /\ IgnoreCase = c.i
  /\ lab = DefineAll(c.D, <<>>)
  /\ CPU_Type = CPU_6502
  /\ Pass = 1
  /\ li = 1
  /\ pc = -1
  /\ bp = 0
  /\ BOC = [i \in 0..(MAXPASS - 1) |-> 0]
  /\ ROM = <<>>
  /\ ErrNum = 0
  /\ status = "run"
  /\ last = NoLast
  /\ hist = [i \in 1..Len(src) |-> [ppc |-> -2, pil |-> 0, fpc |-> -2, fil |-> 0]]
  /\ wlog = NoLog
  /\ Scope = "Main"
  /\ Line = Qualify(src[1], "Main")
  /\ bss = 0
  /\ IfLevel = 0
  /\ SkipLine = [i \in 0..9 |-> FALSE]
  /\ Skipping = FALSE
  /\ WriteLA = 0
  /\ SF = <<>>
  /\ files = <<>>
  /\ Mac = <<>>
  /\ InsideMacro = 0
  /\ MacroPointer = NullPointer
  /\ MacArgs = <<>>
  /\ LiNo = 1

Init ==
  /\ eval = EvalOff
  /\ \E c \in Setups : InitWith(c)

\* ------------------------------------------------------------------------
\* Line handlers
\* ------------------------------------------------------------------------
Running == status = "run" /\ li <= Len(src)

\* the lines that CheckCondition handles
CondKinds == {"ifdef", "if", "else", "endif"}

\* ParseLine reaches the handler of a line of kind k
Assembling(k) == Running /\ ~Skipping /\ Line.k = k

\* NextMacLine: the text of the arguments replaces &0, &1, ...
SubstExpr(e, ma) == IF e.t = "par" THEN ma[e.n + 1] ELSE e

Subst(ln, ma) == [ln EXCEPT !.e = SubstExpr(@, ma), !.e2 = SubstExpr(@, ma)]

\* the program ends in the middle of line li; len is the number of bytes the
\* line was about to occupy, -1 where it did not get that far
\* why names the error message where a property needs it
HaltWhy(s, len, why) ==
  /\ status' = s
  /\ last' = [li |-> li, k |-> Line.k, pass |-> Pass, pc0 |-> pc, n |-> 0,
              len |-> len, err0 |-> ErrNum, why |-> why]
  /\ UNCHANGED <<eval, src, BranchOpt, Pass, pc, bp, lab, BOC, ROM, ErrNum, hist, wlog,
                 side, feed, files>>

Halt(s, len) == HaltWhy(s, len, "")

Fatal == Halt("fatal", -1)

\* exit(1) in DefineLabel for a position label
LabelError ==
  HaltWhy("fatal", -1, IF Pass = 1 THEN "Multiple label definition" ELSE "Phase error")

\* exit(1) in DefineLabel for NAME = expr, or in the evaluation of expr
AssignError(name, e) ==
  HaltWhy("fatal", -1,
          IF EvalOperand(e, lab, Pass).fatal THEN "" ELSE "Multiple assignments")

\* the history of line li in the last two passes
Note(len) ==
  IF InsideMacro > 0 \/ Line.k = "empty" THEN hist
  ELSE IF Pass = MaxPass - 1 THEN [hist EXCEPT ![li].ppc = pc, ![li].pil = len]
  ELSE IF Pass = MaxPass THEN [hist EXCEPT ![li].fpc = pc, ![li].fil = len]
  ELSE hist

\* the write log after the indices W were written
Logged(W, ovfNow, org) ==
  [pass   |-> wlog.pass \cup W,
   blk    |-> IF org THEN {} ELSE wlog.blk \cup W,
   dup    |-> wlog.dup \/ (W \cap wlog.pass # {}),
   dupBlk |-> wlog.dupBlk \/ (W \cap wlog.blk # {} /\ ~wlog.ovf),
   ovf    |-> IF org THEN FALSE ELSE wlog.ovf \/ ovfNow]

\* MacroIndex: position of the macro in the table, 0 where the code
\* returns -1
RECURSIVE MacroScan(_, _, _)
MacroScan(name, mac, i) ==
  IF i > Len(mac) THEN 0
  ELSE IF StrCmp(name, mac[i].Name) THEN i
  ELSE MacroScan(name, mac, i + 1)

MacroIndex(name, mac) == MacroScan(name, mac, 1)

\* RecordMacro in the final pass: after the body has been read over, the
\* listing loop reads on to the next line that holds ENDMAC, or to the end
\* of the file.  The index of the last line read by RecordMacro
ListedTo ==
  IF Line.k = "macro" /\ ~Skipping /\ Pass = MaxPass
  THEN IF \E j \in (li + 1)..Len(src) : src[j].k = "macro"
       THEN CHOOSE j \in (li + 1)..Len(src) :
              /\ src[j].k = "macro"
              /\ \A k \in (li + 1)..(j - 1) : src[k].k # "macro"
       ELSE Len(src)
  ELSE li

\* Scope when ParseLine returns: ParseModule copies the label that it has
\* defined, ParseEndMod stores the empty string
ScopeAfter ==
  IF ~Skipping /\ Line.k = "module" THEN Line.lbl
  ELSE IF ~Skipping /\ Line.k = "endmod" THEN ""
  ELSE Scope

\* the lines of the file that a source line of the model stands for
PhysLines(ln) == IF ln.k = "macro" THEN Len(ln.body) + 2 ELSE 1

RECURSIVE SumLines(_, _)
SumLines(a, b) == IF a > b THEN 0 ELSE PhysLines(src[a]) + SumLines(a + 1, b)

\* the lines that the listing loop of RecordMacro reads: it counts the
\* read that meets the end of the file as well
ListedLines ==
  SumLines(li + 1, ListedTo)
  + (IF \E j \in (li + 1)..Len(src) : src[j].k = "macro" THEN 0 ELSE 1)

\* what a MACRO line adds to LiNo before the pass loop counts the next
\* line: the first definition counts the body and ENDMAC, reading over a
\* known macro counts one more, and the final pass counts the listed lines
MacroLineCount ==
  IF Line.k # "macro" THEN 0
  ELSE IF Skipping \/ MacroIndex(Line.lbl, Mac) = 0 THEN Len(Line.body) + 1
  ELSE IF Pass < MaxPass THEN Len(Line.body) + 2
  ELSE Len(Line.body) + 1 + ListedLines

\* NextMacLine without the decrement of LiNo
FeedCounting(im, mp, ma) ==
  /\ MacArgs' = ma
  /\ Scope' = ScopeAfter
  /\ IF im > 0
     THEN IF mp.i <= Len(Mac'[mp.m].Body)
          THEN /\ Line' = Qualify(Subst(Mac'[mp.m].Body[mp.i], ma), ScopeAfter)
               /\ LiNo' = LiNo + 1
               /\ MacroPointer' = [mp EXCEPT !.i = @ + 1]
               /\ InsideMacro' = im
               /\ li' = li
          ELSE /\ Line' = EmptyLine
               /\ LiNo' = LiNo + 1
               /\ MacroPointer' = NullPointer
               /\ InsideMacro' = im - 1
               /\ li' = li
     ELSE /\ Line' = IF ListedTo + 1 <= Len(src)
                     THEN Qualify(src[ListedTo + 1], ScopeAfter) ELSE EmptyLine
          /\ li' = ListedTo + 1
          /\ LiNo' = LiNo + MacroLineCount + 1
          /\ MacroPointer' = mp
          /\ InsideMacro' = im

\* the line after the present one, where im, mp and ma are InsideMacro,
\* MacroPointer and MacArgs as ParseLine has left them: NextMacLine or fgets
Feed(im, mp, ma) ==
  /\ MacArgs' = ma
  /\ Scope' = ScopeAfter
  /\ IF im > 0
     THEN IF mp.i <= Len(Mac'[mp.m].Body)
          THEN /\ Line' = Qualify(Subst(Mac'[mp.m].Body[mp.i], ma), ScopeAfter)
               /\ LiNo' = LiNo
               /\ MacroPointer' = [mp EXCEPT !.i = @ + 1]
               /\ InsideMacro' = im
               /\ li' = li
          ELSE /\ Line' = EmptyLine
               /\ LiNo' = LiNo
               /\ MacroPointer' = NullPointer
               /\ InsideMacro' = im - 1
               /\ li' = li
     ELSE /\ Line' = IF ListedTo + 1 <= Len(src)
                     THEN Qualify(src[ListedTo + 1], ScopeAfter) ELSE EmptyLine
          /\ li' = ListedTo + 1
          /\ LiNo' = LiNo + MacroLineCount + 1
          /\ MacroPointer' = mp
          /\ InsideMacro' = im

\* end of ParseLine for a line that was handled without exit(1):
\* new label table, change counters, image, error count and pc
\* end of ParseLine for a line that was handled without exit(1):
\* new label table, change counters, image, error count and pc
DoneFeed(kind, l2, b2, r2, nerr, p2, W, len, ovfNow, im, mp, ma) ==
  IF (\E a \in W : ~InROM(a)) \/ (im > 0 /\ mp = NullPointer)
  THEN Halt("ub", len)
  ELSE /\ lab' = l2
       /\ BOC' = b2
       /\ ROM' = r2
       /\ ErrNum' = ErrNum + nerr
       /\ pc' = p2
       /\ Feed(im, mp, ma)
       /\ status' = IF Pass = MaxPass /\ ErrNum + nerr >= ERRMAX THEN "stopped" ELSE "run"
       /\ last' = [li |-> li, k |-> kind, pass |-> Pass, pc0 |-> pc,
                   n |-> Cardinality(W), len |-> len, err0 |-> ErrNum, why |-> ""]
       /\ hist' = Note(len)
       /\ wlog' = Logged(W, ovfNow, kind = "org")
       /\ UNCHANGED <<eval, src, BranchOpt, Pass, bp, files>>

Done(kind, l2, b2, r2, nerr, p2, W, len, ovfNow) ==
  DoneFeed(kind, l2, b2, r2, nerr, p2, W, len, ovfNow,
           InsideMacro, MacroPointer, MacArgs)

\* '*= expr' and '.ORG expr'
SetPC ==
  /\ Assembling("org")
  /\ LET ln == Line
         r  == EvalOperand(ln.e, lab, Pass)
     IN IF r.fatal \/ (ln.arg = ".ORG" /\ r.v > 65536 /\ r.v # UNDEF)
        THEN Fatal
        ELSE Done("org", r.lab, BOC, ROM, 0, r.v, {}, 0, FALSE) /\ UNCHANGED side

\* a line that holds a position label only
LabelOnly ==
  /\ Assembling("none")
  /\ LET r == PreLabel(Line)
     IN IF r.fatal THEN LabelError
        ELSE Done("none", r.lab, r.BOC, ROM, 0, pc, {}, 0, FALSE) /\ UNCHANGED side

\* NAME = expr counting every changed value as a label change
AssignCounted ==
  /\ Assembling("assign")
  /\ LET r == DefineLabelAssign(Line.lbl, Line.e, lab, Pass, 0)
         j == LabelIndex(Line.lbl, lab)
         c == j > 0 /\ lab[j].Address \notin {UNDEF, r.lab[j].Address}
     IN IF r.fatal THEN AssignError(Line.lbl, Line.e)
        ELSE Done("assign", r.lab, IF c THEN [BOC EXCEPT ![Pass - 1] = @ + 1] ELSE BOC,
                  ROM, 0, pc, {}, 0, FALSE) /\ UNCHANGED side

\* NAME = expr
Assign ==
  /\ Assembling("assign")
  /\ LET r == DefineLabelAssign(Line.lbl, Line.e, lab, Pass, 0)
     IN IF r.fatal THEN AssignError(Line.lbl, Line.e)
        ELSE Done("assign", r.lab, BOC, ROM, 0, pc, {}, 0, FALSE) /\ UNCHANGED side

\* Data storing the bytes in every pass
DataEveryPass(kind, labv, boc, buf) ==
  LET W  == Addrs(pc, Len(buf))
      r2 == Store(ROM, pc, buf)
      p2 == pc + Len(buf)
  IN IF \E a \in W : ~InROM(a) THEN Halt("ub", Len(buf))
     ELSE IF PCOverflow(p2) THEN Halt("fatal", Len(buf))
     ELSE Done(kind, labv, boc, r2, 0, p2, W, Len(buf), FALSE) /\ UNCHANGED side

\* a data directive that puts the bytes buf at pc: the labels on pc get
\* their length, the final pass stores the bytes, pc advances, and IsPseudo
\* checks the new pc
Data(kind, labv, boc, buf) ==
  LET W  == IF Pass = MaxPass THEN Addrs(pc, Len(buf)) ELSE {}
      r2 == IF Pass = MaxPass THEN Store(ROM, pc, buf) ELSE ROM
      p2 == pc + Len(buf)
  IN IF \E a \in W : ~InROM(a) THEN Halt("ub", Len(buf))
     ELSE IF PCOverflow(p2) THEN Halt("fatal", Len(buf))
     ELSE Done(kind, labv, boc, r2, 0, p2, W, Len(buf), FALSE) /\ UNCHANGED side

\* .BYTE list
ParseByteData ==
  /\ Assembling("byte")
  /\ LET q == PreLabel(Line)
         r == ByteBuffer(Line.items, ASCII, q.lab, Pass, <<>>)
     IN IF q.fatal THEN LabelError
        ELSE IF r.fatal THEN Fatal
        ELSE Data("byte", SetBytes(r.lab, pc, Len(r.buf)), q.BOC, r.buf)

\* .WORD list and .BIGW list
ParseWordData ==
  /\ Assembling("word")
  /\ LET q == PreLabel(Line)
         r == WordBuffer(Line.items, IF Line.arg = ".BIGW" THEN 1 ELSE 0,
                         q.lab, Pass, <<>>)
     IN IF q.fatal THEN LabelError
        ELSE IF r.fatal THEN Fatal
        ELSE Data("word", SetBytes(r.lab, pc, Len(r.buf)), q.BOC, r.buf)

\* .FILL m (v)
ParseFillData ==
  /\ Assembling("fill")
  /\ LET q == PreLabel(Line)
         r == FillData(Line.e, Line.e2, q.lab, Pass)
     IN IF q.fatal THEN LabelError
        ELSE IF r.fatal THEN HaltWhy("fatal", -1, r.why)
        ELSE Data("fill", r.lab, q.BOC, [i \in 1..r.m |-> r.v])

\* & = expr
SetBSS ==
  /\ Assembling("setbss")
  /\ LET r == EvalOperand(Line.e, lab, Pass)
     IN IF r.fatal THEN Fatal
        ELSE /\ bss' = r.v
             /\ UNCHANGED <<CPU_Type, IfLevel, SkipLine, Skipping, IgnoreCase,
                            WriteLA, SF, Mac>>
             /\ Done("setbss", r.lab, BOC, ROM, 0, pc, {}, 0, FALSE)

\* NAME .BSS expr
DefineBSS ==
  /\ Assembling("bsslabel")
  /\ LET r == DefineLabelBSS(Line.lbl, Line.e, lab, Pass, bss)
     IN IF r.fatal THEN HaltWhy("fatal", -1, "Multiple assignments")
        ELSE /\ bss' = r.bss
             /\ UNCHANGED <<CPU_Type, IfLevel, SkipLine, Skipping, IgnoreCase,
                            WriteLA, SF, Mac>>
             /\ Done("bsslabel", r.lab, BOC, ROM, 0, pc, {}, 0, FALSE)

\* .BSS expr
ParseBSSData ==
  /\ Assembling("bss")
  /\ LET r == EvalOperand(Line.e, lab, Pass)
     IN IF r.fatal THEN Fatal
        ELSE IF r.v < 1 \/ r.v > 32767 THEN HaltWhy("fatal", -1, "Illegal BSS size")
        ELSE /\ bss' = bss + r.v
             /\ UNCHANGED <<CPU_Type, IfLevel, SkipLine, Skipping, IgnoreCase,
                            WriteLA, SF, Mac>>
             /\ Done("bss", r.lab, BOC, ROM, 0, pc, {}, 0, FALSE)

\* CheckSkip looking at the innermost level only
CheckSkipTop(lvl, sk) == lvl >= 1 /\ sk[lvl]

\* CheckSkip: the disjunction of the skip flags of the levels 1..lvl
CheckSkip(lvl, sk) == \E i \in 1..lvl : sk[i]

\* CheckCondition for #ifdef, #if, #else and #endif, which ParseLine calls
\* for every line, skipped or not
CheckCondition ==
  /\ Running
  /\ Line.k \in CondKinds
  /\ UNCHANGED <<CPU_Type, bss, IgnoreCase, WriteLA, SF, Mac>>
  /\ IF Line.k \in {"ifdef", "if"}
     THEN IF IfLevel + 1 > 9
          THEN HaltWhy("fatal", -1, "More than 10 conditions nested")
          ELSE LET r  == EvalOperand(Line.e, lab, Pass)
                   sk == [SkipLine EXCEPT ![IfLevel + 1] =
                            IF Line.k = "ifdef" THEN r.v = UNDEF
                            ELSE r.v = UNDEF \/ r.v = 0]
               IN IF r.fatal THEN HaltWhy("fatal", -1, "UNDEFINED")
                  ELSE /\ IfLevel' = IfLevel + 1
                       /\ SkipLine' = sk
                       /\ Skipping' = CheckSkip(IfLevel + 1, sk)
                       /\ Done(Line.k, r.lab, BOC, ROM, 0, pc, {}, 0, FALSE)
     ELSE IF Line.k = "else"
     THEN LET sk == [SkipLine EXCEPT ![IfLevel] = ~@]
          IN /\ IfLevel' = IfLevel
             /\ SkipLine' = sk
             /\ Skipping' = CheckSkip(IfLevel, sk)
             /\ Done("else", lab, BOC, ROM, 0, pc, {}, 0, FALSE)
     ELSE IF IfLevel - 1 < 0
          THEN HaltWhy("fatal", -1, "endif without if")
          ELSE /\ IfLevel' = IfLevel - 1
               /\ SkipLine' = SkipLine
               /\ Skipping' = CheckSkip(IfLevel - 1, SkipLine)
               /\ Done("endif", lab, BOC, ROM, 0, pc, {}, 0, FALSE)

\* a line inside a skipped block: listed, not assembled
SkipSource ==
  /\ Running
  /\ Skipping
  /\ Line.k \notin CondKinds
  /\ Done("skip", lab, BOC, ROM, 0, pc, {}, 0, FALSE)
  /\ UNCHANGED side

\* ScanArguments: the loop ends after ten arguments, and the tenth makes
\* it store ptr[10] in an array of ten
ScanArguments(args) ==
  [n |-> IF Len(args) < 10 THEN Len(args) ELSE 10, ub |-> Len(args) >= 10]

\* RecordMacro puts &i for the i-th formal, first match first
Formalize(e, formals) ==
  IF e.t = "sym" /\ \E i \in 1..Len(formals) : StrCmp(e.s, formals[i].s)
  THEN Par((CHOOSE i \in 1..Len(formals) :
              /\ StrCmp(e.s, formals[i].s)
              /\ \A k \in 1..(i - 1) : ~StrCmp(e.s, formals[k].s)) - 1)
  ELSE e

MacroBody(body, formals) ==
  [i \in 1..Len(body) |->
     [body[i] EXCEPT !.e = Formalize(@, formals), !.e2 = Formalize(@, formals)]]

\* MACRO name(formals): the first definition of a name is recorded, every
\* later one (and the same one in every later pass) is read over
RecordMacro ==
  /\ Assembling("macro")
  /\ UNCHANGED <<CPU_Type, bss, IfLevel, SkipLine, Skipping, IgnoreCase, WriteLA, SF>>
  /\ IF Len(Mac) > MAXMAC - 2 THEN Mac' = Mac /\ Fatal
     ELSE LET a == ScanArguments(Line.args)
              fs == SubSeq(Line.args, 1, a.n)
              m2 == IF MacroIndex(Line.lbl, Mac) > 0 THEN Mac
                    ELSE Append(Mac, [Name |-> Line.lbl, Narg |-> a.n,
                                      Body |-> MacroBody(Line.body, fs)])
          IN \/ /\ Mac' = m2
                /\ Done("macro", lab, BOC, ROM, 0, pc, {}, 0, FALSE)
             \/ /\ a.ub
                /\ Mac' = Mac
                /\ Halt("ub", -1)

\* a line that starts with a name which is no mnemonic: ExpandMacro, and
\* for an unknown name DefineLabel
ExpandMacro ==
  /\ Assembling("call")
  /\ UNCHANGED side
  /\ LET j == MacroIndex(Line.lbl, Mac)
     IN IF j = 0
        THEN LET r == DefineLabelPos(Line.lbl, lab, pc, Pass, BOC)
             IN IF r.fatal THEN LabelError
                ELSE IF PCOverflow(pc) THEN Fatal
                ELSE Done("none", r.lab, r.BOC, ROM, 0, pc, {}, 0, FALSE)
        ELSE LET a  == IF Line.arg = "()" THEN ScanArguments(Line.args)
                       ELSE [n |-> 0, ub |-> FALSE]
             IN \/ IF a.n # Mac[j].Narg
                   THEN HaltWhy("fatal", -1, "Wrong # of arguments")
                   ELSE IF PCOverflow(pc) THEN Fatal
                   ELSE DoneFeed("call", lab, BOC, ROM, 0, pc, {}, 0, FALSE,
                                 InsideMacro + 1, [m |-> j, i |-> 1],
                                 SubSeq(Line.args, 1, a.n))
                \/ /\ a.ub
                   /\ Halt("ub", -1)

\* the empty line that NextMacLine hands over at the end of a macro body
EmptySource ==
  /\ Assembling("empty")
  /\ Done("empty", lab, BOC, ROM, 0, pc, {}, 0, FALSE)
  /\ UNCHANGED side

\* .CASE + and .CASE -
ParseCaseData ==
  /\ Assembling("case")
  /\ IF Line.arg \notin {"+", "-"} \/ PCOverflow(pc) THEN Fatal
     ELSE /\ IgnoreCase' = IF Line.arg = "+" THEN 0 ELSE 1
          /\ UNCHANGED <<CPU_Type, bss, IfLevel, SkipLine, Skipping, WriteLA, SF, Mac>>
          /\ Done("case", lab, BOC, ROM, 0, pc, {}, 0, FALSE)

\* .LOAD
ParseLoad ==
  /\ Assembling("load")
  /\ IF PCOverflow(pc) THEN Fatal
     ELSE /\ WriteLA' = 1
          /\ UNCHANGED <<CPU_Type, bss, IfLevel, SkipLine, Skipping, IgnoreCase, SF, Mac>>
          /\ Done("load", lab, BOC, ROM, 0, pc, {}, 0, FALSE)

\* .STORE start,length,"name": the final pass enters the region in the
\* list that WriteBinaries works through; li tells where the directive stood
ParseStoreData ==
  /\ Assembling("store")
  /\ UNCHANGED <<CPU_Type, bss, IfLevel, SkipLine, Skipping, IgnoreCase, WriteLA, Mac>>
  /\ IF Pass < MaxPass
     THEN IF PCOverflow(pc) THEN SF' = SF /\ Fatal
          ELSE SF' = SF /\ Done("store", lab, BOC, ROM, 0, pc, {}, 0, FALSE)
     ELSE LET r1 == EvalOperand(Line.e, lab, Pass)
              r2 == EvalOperand(Line.e2, r1.lab, Pass)
          IN IF r1.fatal \/ r1.v < 0 \/ r1.v > 65535 THEN SF' = SF /\ Fatal
             ELSE IF r2.fatal \/ r2.v < 0 \/ r2.v > 65536 THEN SF' = SF /\ Fatal
             ELSE IF Len(SF) >= SFMAX
             THEN SF' = SF /\ (Halt("ub", -1) \/ Fatal)
             ELSE IF PCOverflow(pc) THEN SF' = SF /\ Fatal
             ELSE /\ SF' = Append(SF, [Start |-> r1.v, Length |-> r2.v,
                                       name |-> Line.arg, li |-> li])
                  /\ Done("store", r2.lab, BOC, ROM, 0, pc, {}, 0, FALSE)

\* .END: IsPseudo moves to the end of the line.  ParseLine and the pass
\* loop test ForcedEnd afterwards, which no statement of the program sets:
\* it is 0 in every state, and the next line is read as after any line
ParseEnd ==
  /\ Assembling("end")
  /\ UNCHANGED side
  /\ IF PCOverflow(pc) THEN Fatal
     ELSE Done("end", lab, BOC, ROM, 0, pc, {}, 0, FALSE)

\* MODULE name: the name becomes a position label and the scope
ParseModule ==
  /\ Assembling("module")
  /\ UNCHANGED side
  /\ LET r == DefineLabelPos(Line.lbl, lab, pc, Pass, BOC)
     IN IF r.fatal THEN LabelError
        ELSE Done("module", r.lab, r.BOC, ROM, 0, pc, {}, 0, FALSE)

\* ENDMOD
ParseEndMod ==
  /\ Assembling("endmod")
  /\ UNCHANGED side
  /\ Done("endmod", lab, BOC, ROM, 0, pc, {}, 0, FALSE)

\* .CPU name
ParseCPUData ==
  /\ Assembling("cpu")
  /\ IF CPUOf(Line.arg) = 0 THEN Fatal
     ELSE /\ CPU_Type' = CPUOf(Line.arg)
          /\ UNCHANGED <<bss, IfLevel, SkipLine, Skipping, IgnoreCase, WriteLA, SF, Mac>>
          /\ Done("cpu", lab, BOC, ROM, 0, pc, {}, 0, FALSE)

\* an instruction line, with or without a label in front
GenerateCode ==
  /\ Assembling("ins")
  /\ UNCHANGED side
  /\ LET ln  == Line
         ins == IsInstruction(ln.mne, ln.arg # "implied", CPU_Type)
         q   == IF ins.oc < 0 /\ ln.lbl = ""
                THEN DefineLabelPos(ln.mne, lab, pc, Pass, BOC)
                ELSE PreLabel(ln)
     IN IF q.fatal THEN LabelError
        ELSE IF PCOverflow(pc) THEN Fatal
        ELSE IF ins.oc < 0 THEN Done("none", q.lab, q.BOC, ROM, 0, pc, {}, 0, FALSE)
        ELSE IF pc < 0 THEN Fatal
        ELSE LET c   == Encode(ln, ins, q.lab, pc, Pass, ROM, CPU_Type, BranchOpt, bp)
                 e   == Insert(c.oc, c.v, c.il, bp)
                 fin == Pass = MaxPass
                 ovf == pc + c.il > 65535
                 W   == IF fin THEN Addrs(pc, c.il)
                        ELSE IF c.lock >= 0 THEN {pc} ELSE {}
                 r2  == IF fin THEN Store(ROM, pc, e.bytes)
                        ELSE IF c.lock >= 0 THEN Store(ROM, pc, <<c.lock>>) ELSE ROM
             IN IF c.fatal \/ (fin /\ c.v = UNDEF) THEN Fatal
                ELSE Done("ins", c.lab, q.BOC, r2,
                          IF fin THEN e.err + (IF ovf THEN 1 ELSE 0) ELSE 0,
                          NextPC(pc, c.il), W, c.il, ovf)

\* ------------------------------------------------------------------------
\* Pass driver
\* ------------------------------------------------------------------------
\* a pass driver that makes the pass after an unchanged pass the final one
NextPassConverged ==
  /\ status = "run"
  /\ li > Len(src)
  /\ Pass < MaxPass
  /\ Pass' = IF Pass > 1 /\ BOC[Pass - 1] = 0 THEN MaxPass ELSE Pass + 1
  /\ pc' = -1
  /\ bp' = 0
  /\ li' = 1
  /\ LiNo' = 1
  /\ Scope' = "Main"
  /\ Line' = Qualify(src[1], "Main")
  /\ last' = NoLast
  /\ wlog' = NoLog
  /\ status' = "run"
  /\ UNCHANGED <<eval, src, BranchOpt, lab, BOC, ROM, ErrNum, hist, side, files,
                 InsideMacro, MacroPointer, MacArgs>>

\* end of Pass1(): main starts the next pass
NextPass ==
  /\ status = "run"
  /\ li > Len(src)
  /\ Pass < MaxPass
  /\ Pass' = Pass + 1
  /\ pc' = -1
  /\ bp' = 0
  /\ li' = 1
  /\ LiNo' = 1
  /\ Scope' = "Main"
  /\ Line' = Qualify(src[1], "Main")
  /\ last' = NoLast
  /\ wlog' = NoLog
  /\ status' = IF Pass + 1 = MaxPass /\ IfLevel # 0 THEN "fatal" ELSE "run"
  /\ UNCHANGED <<eval, src, BranchOpt, lab, BOC, ROM, ErrNum, hist, side, files,
                 InsideMacro, MacroPointer, MacArgs>>

\* a file with the start address high byte first
FileBytesBigEndian(sf) ==
  (IF WriteLA = 1 THEN <<(sf.Start \div 256) % 256, sf.Start % 256>> ELSE <<>>)
  \o [i \in 1..sf.Length |-> ROMAt(ROM, sf.Start + i - 1)]

\* the file of one .STORE directive
FileBytes(sf) ==
  (IF WriteLA = 1 THEN <<sf.Start % 256, (sf.Start \div 256) % 256>> ELSE <<>>)
  \o [i \in 1..sf.Length |-> ROMAt(ROM, sf.Start + i - 1)]

WriteBinaries == [i \in 1..Len(SF) |-> [name |-> SF[i].name, bytes |-> FileBytes(SF[i])]]

\* end of Pass2(): main writes its reports and returns
Finish ==
  /\ \/ status = "run" /\ li > Len(src) /\ Pass = MaxPass
     \/ status = "stopped"
  /\ IF \E i \in 1..Len(SF) : SF[i].Start + SF[i].Length > ROMSIZE
     THEN status' = "ub" /\ files' = files
     ELSE /\ status' = IF status = "stopped" THEN "ended" ELSE "done"
          /\ files' = WriteBinaries
  /\ UNCHANGED <<eval, src, BranchOpt, Pass, pc, bp, lab, BOC, ROM, ErrNum,
                 last, hist, wlog, side, feed>>

Next ==
  \/ SetPC
  \/ LabelOnly
  \/ Assign
  \/ ParseByteData
  \/ ParseWordData
  \/ ParseFillData
  \/ ParseCPUData
  \/ RecordMacro
  \/ ExpandMacro
  \/ EmptySource
  \/ ParseCaseData
  \/ ParseModule
  \/ ParseEndMod
  \/ ParseEnd
  \/ ParseLoad
  \/ ParseStoreData
  \/ CheckCondition
  \/ SkipSource
  \/ SetBSS
  \/ DefineBSS
  \/ ParseBSSData
  \/ GenerateCode
  \/ NextPass
  \/ Finish

Spec == Init /\ [][Next]_vars

\* ------------------------------------------------------------------------
\* EvalOperand on the text of an operand
\* ------------------------------------------------------------------------
\* the characters of the explored operand texts
Chars == {"1", "=", "!", "+", " ", ","}

Texts == UNION {[1..n -> Chars] : n \in 0..MaxText}

\* *p, the empty string standing for the terminating 0
At(t, p) == IF p \in 1..Len(t) THEN t[p] ELSE ""

RECURSIVE SkipSpace(_, _)
SkipSpace(t, p) == IF At(t, p) = " " THEN SkipSpace(t, p + 1) ELSE p

\* the characters of unastring that the explored texts hold
unastring == {"+", "!"}

\* the characters that keep the loop over the binary operators going
BinChars == {"=", "*", "/", "+", "-", "<", ">", "!", "&", "^", "|"}

\* binop[], in the order of the table, without the operators that the
\* explored texts cannot spell
binop ==
  << [op |-> <<"+">>, prio |-> 10],
     [op |-> <<"=", "=">>, prio |-> 7],
     [op |-> <<"!", "=">>, prio |-> 7] >>

\* !strncmp(p,binop[i].op,l)
Starts(t, p, i) == \A k \in 1..Len(binop[i].op) : At(t, p + k - 1) = binop[i].op[k]

\* the first operator of the table that the text at p starts with, 0 when
\* the for loop ends without a match
MatchBinOp(t, p) ==
  IF \E i \in 1..Len(binop) : Starts(t, p, i)
  THEN CHOOSE i \in 1..Len(binop) :
         Starts(t, p, i) /\ \A k \in 1..(i - 1) : ~Starts(t, p, k)
  ELSE 0

\* binop[i].foo(l, r)
ApplyBinOp(i, l, r) ==
  IF i = 1 THEN l + r
  ELSE IF i = 2 THEN (IF l = r THEN 1 ELSE 0)
  ELSE (IF l # r THEN 1 ELSE 0)

\* EvalDecValue: atoi and the position behind the digits
RECURSIVE DecEnd(_, _)
DecEnd(t, p) == IF At(t, p) = "1" THEN DecEnd(t, p + 1) ELSE p

RECURSIVE DecValue(_, _, _)
DecValue(t, p, acc) ==
  IF At(t, p) = "1" THEN DecValue(t, p + 1, 10 * acc + 1) ELSE acc

\* a call of EvalOperand(p, &v, prio): v is preset to UNDEF; wait and op
\* say what the call does with the value of the call it is waiting for
Call(prio) == [prio |-> prio, v |-> UNDEF, wait |-> "", op |-> 0]

EvalStart(t) ==
  [st |-> "operand", text |-> t, p |-> 1, stack |-> <<Call(0)>>, v |-> UNDEF, spin |-> 0]

\* the innermost call returns p and its value
Returning(v) == [eval EXCEPT !.st = "return", !.v = v]

\* the part of EvalOperand before the loop: the left operand
EvalLeftOperand ==
  /\ eval.st = "operand"
  /\ UNCHANGED file
  /\ LET t   == eval.text
         p   == SkipSpace(t, eval.p)
         c   == At(t, p)
         top == Len(eval.stack)
     IN IF c = ","
        THEN eval' = [Returning(UNDEF) EXCEPT !.p = p]
        ELSE IF c \in unastring
        THEN eval' = [eval EXCEPT !.p = p + 1,
                                  !.stack = Append([@ EXCEPT ![top].wait = c], Call(12))]
        ELSE IF c = "1"
        THEN eval' = [eval EXCEPT !.p = SkipSpace(t, DecEnd(t, p)),
                                  !.stack[top].v = DecValue(t, p, 0),
                                  !.st = "loop"]
        ELSE eval' = [eval EXCEPT !.p = p, !.st = "exit"]

\* one test of the while condition and, where it holds, one run of the for
\* loop over binop[]
EvalBinaryLoop ==
  /\ eval.st = "loop"
  /\ eval.spin < MaxSpin
  /\ UNCHANGED file
  /\ LET t   == eval.text
         p   == eval.p
         top == Len(eval.stack)
         i   == MatchBinOp(t, p)
     IN IF At(t, p) \notin BinChars
        THEN eval' = Returning(eval.stack[top].v)
        ELSE IF i = 0
        THEN eval' = [eval EXCEPT !.spin = @ + 1]
        ELSE IF binop[i].prio <= eval.stack[top].prio
        THEN eval' = Returning(eval.stack[top].v)
        ELSE eval' = [eval EXCEPT
                        !.p = p + Len(binop[i].op),
                        !.stack = Append([@ EXCEPT ![top].wait = "bin", ![top].op = i],
                                         Call(binop[i].prio)),
                        !.st = "operand"]

\* the return of a call: the top call hands the value to its caller, which
\* applies the unary or binary operator and goes on with its loop
EvalReturn ==
  /\ eval.st = "return"
  /\ UNCHANGED file
  /\ LET top == Len(eval.stack)
         w   == eval.v
     IN IF top = 1 THEN eval' = [eval EXCEPT !.st = "done", !.stack = <<>>]
        ELSE LET c  == eval.stack[top - 1]
                 v2 == IF c.wait = "bin"
                       THEN (IF c.v = UNDEF \/ w = UNDEF THEN UNDEF
                             ELSE ApplyBinOp(c.op, c.v, w))
                       ELSE IF c.wait = "!" THEN (IF w = 0 THEN 1 ELSE 0)
                       ELSE w
             IN eval' = [eval EXCEPT
                           !.stack = Append(SubSeq(@, 1, top - 2),
                                            [c EXCEPT !.v = v2, !.wait = "", !.op = 0]),
                           !.p = IF c.wait = "bin" THEN @ ELSE SkipSpace(eval.text, @),
                           !.st = "loop"]

EvalInit ==
  /\ eval \in {EvalStart(t) : t \in Texts}
  /\ InitWith(Plain(EndifAlone))

EvalNext ==
  \/ EvalLeftOperand
  \/ EvalBinaryLoop
  \/ EvalReturn

EvalSpec == EvalInit /\ [][EvalNext]_vars

\* ------------------------------------------------------------------------
\* Properties
\* ------------------------------------------------------------------------
Img(a, n) == [i \in 1..n |-> ROMAt(ROM, a + i - 1)]

\* the lines that define a position label
PosLabelLines ==
  {i \in 1..Len(src) :
     src[i].lbl # "" /\ src[i].k \in {"none", "ins", "byte", "word", "fill"}}

\* C1: when the assembly completes the final pass, the address stored for
\* every position label that is not locked equals the pc that its
\* definition line had in the final pass.
C1_LabelAddressIsFinalPc ==
  status = "done" =>
    \A i \in PosLabelLines :
      LET j == LabelIndex(src[i].lbl, lab)
      IN j > 0 /\ (lab[j].Locked = 0 => lab[j].Address = hist[i].fpc)

\* a completed assembly with an unlocked position label that moved in an
\* earlier pass
C1_Witness ==
  /\ status = "done"
  /\ \E p \in DOMAIN BOC : BOC[p] > 0
  /\ \E i \in PosLabelLines :
       /\ lab[LabelIndex(src[i].lbl, lab)].Locked = 0
       /\ lab[LabelIndex(src[i].lbl, lab)].Address = hist[i].fpc
       /\ hist[i].fpc > 2048

\* C2: when the final pass completes, every instruction that stands at the
\* same pc in the last two passes has the same length in both.
C2_Convergence ==
  status = "done" =>
    \A i \in 1..Len(src) :
      (src[i].k = "ins" /\ hist[i].fpc = hist[i].ppc) => hist[i].fil = hist[i].pil

\* the lines after line i that define name as a position label
DefinedLater(name, i) == {j \in PosLabelLines : j > i /\ src[j].lbl = name}

\* C3: in the final pass the operand bytes of an instruction that refers
\* to a position label defined further down hold the address of that label,
\* and '*= $0800 / JMP END / .BYTE 0,0 / END RTS' assembles to
\* 4C 05 08 00 00 60 at $0800.
C3_ForwardReference ==
  /\ (src = ForwardRef /\ status # "run") =>
        (status = "done" /\ Img(2048, 6) = <<76, 5, 8, 0, 0, 96>>)
  /\ ( /\ last.k = "ins"
       /\ last.pass = MaxPass
       /\ status \in {"run", "done"}
       /\ src[last.li].mne \in DOMAIN Gen
       /\ src[last.li].e.t = "sym"
       /\ DefinedLater(src[last.li].e.s, last.li) # {} )
     => LET a == lab[LabelIndex(src[last.li].e.s, lab)].Address
        IN /\ ROMAt(ROM, last.pc0 + 1) = a % 256
           /\ last.len = 3 => ROMAt(ROM, last.pc0 + 2) = a \div 256
           /\ last.len = 2 => a \div 256 = 0

\* the scenario of C3 assembled to the end
C3_Witness ==
  /\ src = ForwardRef
  /\ status = "done"
  /\ ROMAt(ROM, 2049) = 5
  /\ lab[LabelIndex("END", lab)].Address = 2053

\* the program is running or has ended without exit(1)
Alive == status \in {"run", "done", "stopped"}

DataKinds == {"byte", "word", "fill"}

\* C4 (as stated): within a pass no image index is written twice.
C4_WrittenOncePerPass == ~wlog.dup

\* C4 (amended): within a pass no image index is written twice by the lines
\* between two origin directives, unless an instruction of that block met
\* the program counter overflow, which leaves pc where it is.
C4_WrittenOncePerBlock == ~wlog.dupBlk

\* an origin directive has set pc back onto indices written before, and the
\* lines after it have written them a second time
C4_Witness ==
  /\ wlog.dup
  /\ ~wlog.dupBlk
  /\ Cardinality(wlog.blk) >= 2
  /\ Pass = MaxPass

\* the two opcodes a relative branch may lock
LockedOpcodes(mne) == {Rel[mne].Opc, Or3(Rel[mne].Opc)}

\* C5 (as stated): no line changes the image in a pass before the last.
C5_ImageWrittenInFinalPassOnly == [][Pass < MaxPass => ROM' = ROM]_vars

\* C5 (amended): in a pass before the last the image changes only in pass
\* MaxPass-1, with branch optimisation on the 45GS02, where a relative
\* branch stores its short or long opcode at ROM[pc].
C5_EarlyWritesAreOpcodeLocks ==
  [][Pass < MaxPass =>
       \/ ROM' = ROM
       \/ /\ Pass = MaxPass - 1
          /\ BranchOpt = 1
          /\ CPU_Type = CPU_45GS02
          /\ Line.k = "ins"
          /\ Line.mne \in DOMAIN Rel
          /\ \E oc \in LockedOpcodes(Line.mne) : ROM' = Store(ROM, pc, <<oc>>)]_vars

\* a branch has locked its opcode in pass MaxPass-1
C5_Witness ==
  /\ Pass = MaxPass - 1
  /\ last.k = "ins"
  /\ last.n = 1
  /\ ROMAt(ROM, last.pc0) \in LockedOpcodes(src[last.li].mne)

\* C6 (as stated): every instruction and data line advances pc by its
\* length, which is at least 1, and no other line but an origin directive
\* changes pc.
C6_PcStrictlyIncreases ==
  Alive =>
    /\ (last.k \in DataKinds \cup {"ins"}) =>
          (pc = last.pc0 + last.len /\ pc > last.pc0)
    /\ (last.k \in {"none", "assign", "cpu"}) => pc = last.pc0

\* C6 (amended): pc never decreases but by an origin directive: a data line
\* advances pc by the number of its bytes, which may be 0, an instruction
\* by its length unless pc + length > 0xFFFF, where pc stays, and the other
\* lines leave pc alone.
C6_PcNeverDecreases ==
  Alive =>
    /\ (last.k \in DataKinds) => (last.len >= 0 /\ pc = last.pc0 + last.len)
    /\ (last.k = "ins") =>
          /\ last.len >= 1
          /\ pc = IF last.pc0 + last.len > 65535 THEN last.pc0
                  ELSE last.pc0 + last.len
    /\ (last.k \in {"none", "assign", "cpu"}) => pc = last.pc0

\* a .FILL of 0 bytes has left pc where it was
C6_Witness ==
  /\ status = "run"
  /\ last.k = "fill"
  /\ last.len = 0
  /\ pc = last.pc0
  /\ pc >= 0

\* C7 (as stated): a line that would take pc beyond 0xFFFF raises an error.
C7_BeyondFFFFIsAnError ==
  (last.k \in DataKinds \cup {"ins"} /\ last.len >= 0 /\ status # "ub"
     /\ last.pc0 + last.len > 65535)
  => (status = "fatal" \/ ErrNum > last.err0)

\* C7 (amended): an instruction with pc + length > 0xFFFF leaves pc alone
\* and counts one error in the final pass and none in the passes before; a
\* data line is fatal, in every pass, exactly when the pc after it is
\* greater than 0x10000.
C7_OverflowErrors ==
  /\ (Alive /\ last.k = "ins") =>
        LET over == last.pc0 + last.len > 65535
            errs == ErrNum - last.err0
        IN /\ over => pc = last.pc0
           /\ (over /\ last.pass = MaxPass) => errs \in {1, 2}
           /\ (~over /\ last.pass = MaxPass) => errs \in {0, 1}
           /\ last.pass < MaxPass => errs = 0
  /\ (status # "ub" /\ last.k \in DataKinds /\ last.len >= 0) =>
        IF last.pc0 + last.len > 65536 /\ last.pc0 + last.len # UNDEF
        THEN status = "fatal"
        ELSE Alive /\ ErrNum = last.err0 /\ pc = last.pc0 + last.len

\* a 3-byte instruction at $FFFD in the final pass
C7_Witness ==
  /\ Alive
  /\ last.k = "ins"
  /\ last.pass = MaxPass
  /\ last.pc0 = 65533
  /\ last.len = 3
  /\ ErrNum = last.err0 + 1
  /\ pc = 65533

\* the value of the operand of line i in the present label table
OperandValue(i) ==
  IF src[i].e.t = "num" THEN src[i].e.n
  ELSE lab[LabelIndex(src[i].e.s, lab)].Address

\* a 2-byte relative branch was emitted by the final pass
ShortBranchEmitted ==
  /\ Alive
  /\ last.k = "ins"
  /\ last.pass = MaxPass
  /\ src[last.li].mne \in DOMAIN Rel
  /\ last.len = 2

\* C8: the second byte of a 2-byte relative branch whose distance
\* target - (pc+2) is within -128..127 is that distance modulo 256, and it
\* is 0 for a branch to the next instruction.
C8_ShortBranchOffset ==
  ShortBranchEmitted =>
    LET d == OperandValue(last.li) - (last.pc0 + 2)
    IN (d >= -128 /\ d <= 127) =>
         /\ ROMAt(ROM, last.pc0 + 1) = d % 256
         /\ (d = 0 => ROMAt(ROM, last.pc0 + 1) = 0)

\* a branch to the instruction that follows it
C8_Witness ==
  /\ ShortBranchEmitted
  /\ OperandValue(last.li) = last.pc0 + 2
  /\ ROMAt(ROM, last.pc0) = Rel[src[last.li].mne].Opc
  /\ ROMAt(ROM, last.pc0 + 1) = 0

\* the bytes of one item of a .BYTE list in its own encoding
ItemBytes(it) == ByteBuffer(<<it>>, ASCII, lab, MaxPass, <<>>).buf

RECURSIVE ListBytes(_)
ListBytes(items) ==
  IF items = <<>> THEN <<>>
  ELSE ItemBytes(Head(items)) \o ListBytes(Tail(items))

\* C9: after a .BYTE line of the final pass the image holds, from the pc of
\* the line on, the bytes of the items in source order, each in its
\* encoding, and pc has advanced by their number.
C9_ByteList ==
  (Alive /\ last.k = "byte" /\ last.pass = MaxPass) =>
    LET b == ListBytes(src[last.li].items)
    IN /\ Img(last.pc0, Len(b)) = [i \in 1..Len(b) |-> b[i] % 256]
       /\ pc = last.pc0 + Len(b)

\* C10: after a .WORD line of the final pass the image holds, for the i-th
\* item of value v, v & 0xFF at pc + 2(i-1) and v >> 8 behind it, and after
\* a .BIGW line the two bytes in the opposite order.
C10_WordByteOrder ==
  (Alive /\ last.k = "word" /\ last.pass = MaxPass) =>
    LET its == src[last.li].items
        big == src[last.li].arg = ".BIGW"
    IN \A i \in 1..Len(its) :
         LET v == IF its[i].t = "num" THEN its[i].n
                  ELSE lab[LabelIndex(its[i].s, lab)].Address
             a == last.pc0 + 2 * (i - 1)
         IN /\ ROMAt(ROM, a) = IF big THEN (v \div 256) % 256 ELSE v % 256
            /\ ROMAt(ROM, a + 1) = IF big THEN v % 256 ELSE (v \div 256) % 256

\* a .WORD list of two items, the first being $1234
C10_Witness ==
  /\ Alive
  /\ last.k = "word"
  /\ last.pass = MaxPass
  /\ src[last.li].arg = ".WORD"
  /\ Len(src[last.li].items) = 2
  /\ src[last.li].items[1] = Num(4660)
  /\ ROMAt(ROM, last.pc0) = 52
  /\ ROMAt(ROM, last.pc0 + 1) = 18
  /\ pc = last.pc0 + 4

\* ------------------------------------------------------------------------
\* C11 (as stated): when a pass other than the first has counted no label
\* change, the pass after it is the final pass.  BOC[p - 1] is the count
\* of pass p.
C11_UnchangedPassEndsPasses ==
  \A p \in 2..(Pass - 1) : BOC[p - 1] = 0 => p + 1 = MaxPass

\* C11 (amended): the pass number goes up by one at a time, only at the
\* end of the source and never beyond MaxPass, and main returns only from
\* pass MaxPass: an assembly without fatal error runs all MaxPass passes,
\* whatever the change counts are.
C11_AlwaysMaxPassPasses ==
  [][ /\ Pass <= MaxPass
      /\ (Pass' # Pass => Pass' = Pass + 1 /\ Pass' <= MaxPass /\ li > Len(src))
      /\ (status' = "done" => Pass' = MaxPass) ]_vars

\* changes in pass 2, none in pass 3, and still 20 passes
C11_Witness ==
  /\ status = "done"
  /\ Pass = MaxPass
  /\ BOC[1] > 0
  /\ BOC[2] = 0

\* ------------------------------------------------------------------------
\* C12 (as stated): when a pass starts, pc is undefined (-1), the BSS
\* counter has its initial value 0 again, and the symbol table is the one
\* the pass before has left.
C12_PassStartsFresh ==
  [][Pass' # Pass => pc' = -1 /\ bss' = 0 /\ lab' = lab]_vars

\* ------------------------------------------------------------------------
\* the value that the line about to be handled defines its symbol with
DefValue == IF Line.k = "assign" THEN EvalOperand(Line.e, lab, Pass).v ELSE pc

DefKinds == {"assign", "none", "ins", "byte", "word", "fill"}

\* the line about to be handled defines a symbol that is stored, not
\* locked, with an address that differs from the new value
Conflict ==
  /\ Running
  /\ ~Skipping
  /\ Line.k \in DefKinds
  /\ Line.lbl # ""
  /\ LET j == LabelIndex(Line.lbl, lab)
     IN /\ j > 0
        /\ lab[j].Address \notin {UNDEF, DefValue}
        /\ lab[j].Locked = 0

Redefined ==
  /\ lab'[LabelIndex(Line.lbl, lab)].Address = DefValue
  /\ BOC'[Pass - 1] = BOC[Pass - 1] + 1

\* C13 (as stated): a conflicting definition of a symbol is fatal in pass
\* 1, is stored and counted in passes 2 to MaxPass - 1, and is fatal in
\* the final pass.
C13_PhasePolicyAllSymbols ==
  [][Conflict =>
       IF Pass = 1 \/ Pass = MaxPass THEN status' = "fatal"
       ELSE status' = "run" => Redefined]_vars

\* C13 (amended): the policy holds for position labels, with the messages
\* of DefineLabel; NAME = expr stores the new value in every pass before
\* the final one without counting it and is fatal in the final pass only.
C13_PhasePolicy ==
  [][Conflict =>
       IF Line.k = "assign"
       THEN IF Pass = MaxPass
            THEN status' = "fatal" /\ last'.why = "Multiple assignments"
            ELSE /\ status' = "run"
                 /\ lab'[LabelIndex(Line.lbl, lab)].Address = DefValue
                 /\ BOC' = BOC
       ELSE IF Pass = 1
            THEN status' = "fatal" /\ last'.why = "Multiple label definition"
       ELSE IF Pass = MaxPass
            THEN status' = "fatal" /\ last'.why = "Phase error"
       ELSE /\ status' = "fatal" => last'.why \notin {"Multiple label definition", "Phase error"}
            /\ status' = "run" => Redefined]_vars

\* A = 1 / A = 2: passes 1 to 19 have stored 2 last, the final pass stops
\* at A = 1
C13_Witness ==
  /\ src = Reassign
  /\ status = "fatal"
  /\ Pass = MaxPass
  /\ last.k = "assign"
  /\ last.why = "Multiple assignments"
  /\ lab[LabelIndex("A", lab)].Address = 2
  /\ \A p \in DOMAIN BOC : BOC[p] = 0

\* ------------------------------------------------------------------------
\* the operand e is a symbol without a value
Undefined(e) ==
  /\ e.t = "sym"
  /\ LET j == LabelIndex(e.s, lab) IN j = 0 \/ lab[j].Address = UNDEF

\* C14 (as stated, first half): before the final pass no line stops the
\* assembly because the symbol in its argument has no value yet.
C14_UndefinedToleratedBeforeFinalPass ==
  ~ ( /\ status = "fatal"
      /\ Pass < MaxPass
      /\ Line.k \in {"fill", "bss"}
      /\ Undefined(Line.e)
      /\ last.why \in {"Illegal FILL multiplier", "Illegal BSS size"} )

\* ------------------------------------------------------------------------
\* C15: after every line Skipping is the disjunction of the skip flags of
\* the open levels 1..IfLevel, and a line that CheckCondition does not
\* handle is skipped if and only if one of these flags is set.
C15_AssembledIffNoSkipFlag ==
  [][ /\ Skipping' = (\E i \in 1..IfLevel' : SkipLine'[i])
      /\ (Running /\ Line.k \notin CondKinds)
           => ((last'.k = "skip") <=> (\E i \in 1..IfLevel : SkipLine[i])) ]_vars

\* a line skipped in the final pass because of the outer level, the inner
\* level being true
C15_Witness ==
  /\ Pass = MaxPass
  /\ last.k = "skip"
  /\ IfLevel = 2
  /\ SkipLine[1]
  /\ ~SkipLine[2]

\* ------------------------------------------------------------------------
\* C16 (as stated): in every pass an #ifdef or #if whose operand is a
\* symbol without a value opens a level with the skip flag set, and the
\* assembly goes on.
C16_UndefinedConditionSkips ==
  [][(Running /\ Line.k \in {"ifdef", "if"} /\ IfLevel < 9 /\ Undefined(Line.e))
       => /\ status' = "run"
          /\ IfLevel' = IfLevel + 1
          /\ SkipLine'[IfLevel + 1]]_vars

\* ------------------------------------------------------------------------
\* C17 (as stated): the error for too many nested conditions is raised
\* only when ten levels are open already, that is for the eleventh.
C17_TenthLevelAccepted ==
  (status = "fatal" /\ last.why = "More than 10 conditions nested") => IfLevel >= 10

\* ------------------------------------------------------------------------
\* the line about to be handled calls a macro of the table
MacroCall ==
  /\ Running
  /\ ~Skipping
  /\ Line.k = "call"
  /\ MacroIndex(Line.lbl, Mac) > 0

\* C18 (as stated): a macro call whose number of arguments equals the
\* number of parameters of the definition is not rejected and, where the
\* assembly goes on, starts the expansion; with every other number of
\* arguments the assembly does not go on.
C18_AcceptedIffCountsMatch ==
  [][MacroCall =>
       IF Len(Line.args) = Mac[MacroIndex(Line.lbl, Mac)].Narg
       THEN /\ status' # "fatal"
            /\ status' = "run" => InsideMacro' = InsideMacro + 1
       ELSE status' # "run"]_vars

\* ------------------------------------------------------------------------
CaseNames == {"FOO", "foo"}

AfterLoad(sf) == \E j \in 1..(sf.li - 1) : src[j].k = "load"

LoadAddress(sf) == <<sf.Start % 256, sf.Start \div 256>>

BelowEnd ==
  /\ Running
  /\ \A j \in 1..Len(src) : src[j].k \notin CondKinds \cup {"macro", "call"}
  /\ \E j \in 1..(li - 1) : src[j].k = "end"

\* C21 (as stated): in every pass a line below .END writes no byte of the
\* image, defines no symbol and leaves pc alone.
C21_NothingAssembledAfterEnd ==
  [][BelowEnd => (ROM' = ROM /\ lab' = lab /\ pc' = pc)]_vars

\* ------------------------------------------------------------------------
\* the line about to be handled has a mnemonic of the implied table that
\* the selected CPU does not have
GatedMnemonic ==
  /\ Assembling("ins")
  /\ Line.mne \in DOMAIN Imp
  /\ BitAnd(Imp[Line.mne].CPU, CPU_Type) # 0

\* C22 (as stated): a line with a mnemonic that the selected CPU does not
\* have is reported as an error.
C22_GatedMnemonicIsError ==
  [][GatedMnemonic => (status' = "fatal" \/ ErrNum' > ErrNum)]_vars

\* ------------------------------------------------------------------------
\* C23 (as stated): an assignment that gives an unlocked symbol another
\* value than the stored one is fatal in the final pass; in every earlier
\* pass it stores the new value and adds one to the change counter of the
\* pass.
C23_AssignChangeCounted ==
  [][(Conflict /\ Line.k = "assign") =>
       IF Pass = MaxPass THEN status' = "fatal"
       ELSE /\ status' = "run"
            /\ lab'[LabelIndex(Line.lbl, lab)].Address = DefValue
            /\ BOC'[Pass - 1] = BOC[Pass - 1] + 1]_vars

\* C23 (amended): an assignment whose expression has a value never touches
\* the change counters.  It gives a new or undefined symbol the value,
\* leaves a symbol alone that is locked or has the value already, and
\* otherwise stores the new value in every pass before the final one and
\* is fatal in the final pass.
C23_AssignPolicy ==
  [][(Assembling("assign") /\ ~EvalOperand(Line.e, lab, Pass).fatal) =>
       LET j == LabelIndex(Line.lbl, lab)
           v == DefValue
       IN /\ BOC' = BOC
          /\ IF j = 0 \/ lab[j].Address = UNDEF
             THEN status' = "run" /\ lab'[LabelIndex(Line.lbl, lab')].Address = v
             ELSE IF lab[j].Address = v \/ lab[j].Locked # 0
             THEN status' = "run" /\ lab'[j] = lab[j]
             ELSE IF Pass = MaxPass
             THEN status' = "fatal" /\ last'.why = "Multiple assignments"
             ELSE status' = "run" /\ lab'[j].Address = v]_vars

\* A = 1 / A = 2 in pass 2: the second assignment has replaced 1 by 2 and
\* no change is counted
C23_Witness ==
  /\ src = Reassign
  /\ status = "run"
  /\ Pass = 2
  /\ last.k = "assign"
  /\ last.li = 3
  /\ lab[LabelIndex("A", lab)].Address = 2
  /\ \A p \in DOMAIN BOC : BOC[p] = 0

\* ------------------------------------------------------------------------
\* a relative branch of the source file assembled with branch optimisation
OptBranch ==
  /\ Assembling("ins")
  /\ InsideMacro = 0
  /\ Line.mne \in DOMAIN Rel
  /\ BranchOpt = 1
  /\ CPU_Type = CPU_45GS02
  /\ pc >= 0

\* the opcode that goes with the length il of a branch
ChosenOpcode(mne, il) == IF il = 3 THEN Or3(Rel[mne].Opc) ELSE Rel[mne].Opc

\* C24: with branch optimisation on the 45GS02 a branch whose displacement
\* is outside -128..127 gets length 3, the pass before the last stores the
\* opcode of the chosen length at the pc of the branch, and the final pass
\* assembles the branch with the length and the opcode that the pass
\* before the last chose for it.
C24_FinalPassKeepsLockedBranch ==
  [][(OptBranch /\ status' \in {"run", "stopped"}) =>
       LET t == EvalOperand(Line.e, lab', Pass).v
           d == IF t = UNDEF THEN UNDEF ELSE RelOffset(t, pc)
       IN IF Pass < MaxPass
          THEN /\ (d # UNDEF /\ (d < -128 \/ d > 127)) => last'.len = 3
               /\ Pass = MaxPass - 1 =>
                    ROMAt(ROM', pc) = ChosenOpcode(Line.mne, last'.len)
          ELSE /\ last'.len = hist[li].pil
               /\ ROMAt(ROM', pc) = ChosenOpcode(Line.mne, hist[li].pil)]_vars

\* ------------------------------------------------------------------------
\* C25: macro expansion consumes no line numbers.  A line handed over by
\* NextMacLine (a line of the body, or the empty line at its end) is
\* processed with the line number of the call line, and the source line
\* read after the expansion has the line number of the call line plus one.
C25_ExpansionKeepsLineNumber ==
  [][(Running /\ status' = "run" /\ Pass' = Pass) =>
       /\ (InsideMacro' > 0 \/ InsideMacro > 0) => (LiNo' = LiNo /\ li' = li)
       /\ (Line.k = "empty" /\ InsideMacro = 0) => (LiNo' = LiNo + 1 /\ li' = li + 1)]_vars

\* the empty line that ends an expansion has been handled, and the next
\* source line is about to be processed: at least two lines came from a
\* macro body since the call
C25_Witness ==
  /\ status = "run"
  /\ last.k = "empty"
  /\ InsideMacro = 0
  /\ li = last.li + 1
  /\ li <= Len(src)
  /\ src[last.li].k = "call"
  /\ Len(Mac[MacroIndex(src[last.li].lbl, Mac)].Body) >= 2

\* ------------------------------------------------------------------------
\* a line of a program without conditionals and macros that stands outside
\* every module: no MODULE line above it, or an ENDMOD after the last one
OutsideModules ==
  /\ Running
  /\ \A j \in 1..Len(src) : src[j].k \notin CondKinds \cup {"macro", "call"}
  /\ \A j \in 1..(li - 1) :
       src[j].k = "module" => \E k \in (j + 1)..(li - 1) : src[k].k = "endmod"

\* C26: ENDMOD brings back the scope that was active before the matching
\* MODULE.  Outside every module the scope is the one the pass started
\* with, and a local identifier used there resolves to the same symbol
\* before the MODULE and after the ENDMOD.
C26_EndModRestoresScope ==
  OutsideModules =>
    /\ Scope = "Main"
    /\ (src[li].e.t = "sym" /\ src[li].e.s \in LocalNames) =>
          Line.e.s = "Main" \o src[li].e.s

\* ------------------------------------------------------------------------
\* a data directive or an instruction of the source file is about to be
\* handled
WritingLine ==
  /\ Running
  /\ ~Skipping
  /\ InsideMacro = 0
  /\ Line.k \in {"byte", "word", "fill", "ins"}

\* C27: no data directive and no instruction writes outside the image: a
\* line that would write at an index below 0 or above $100FF is rejected
\* before the write.  (The handlers of these lines end in "ub" exactly
\* when they store a byte at an index outside ROM[].)
C27_WritesInsideImage == [][WritingLine => status' # "ub"]_vars

\* ------------------------------------------------------------------------
\* the final pass handles a relative branch of the source file whose target
\* is defined and lies outside the range of a short branch
FarBranch ==
  /\ Assembling("ins")
  /\ InsideMacro = 0
  /\ Line.mne \in DOMAIN Rel
  /\ Pass = MaxPass
  /\ pc >= 0
  /\ LET t == EvalOperand(Line.e, lab, Pass).v
     IN t # UNDEF /\ (RelOffset(t, pc) < -128 \/ RelOffset(t, pc) > 127)

\* C28: no 2-byte branch is written with a displacement outside -128..127:
\* in the final pass a branch out of short range is emitted with length 3
\* or it is reported as an error.
C28_FarBranchLongOrError ==
  [][FarBranch => (status' = "fatal" \/ ErrNum' > ErrNum \/ last'.len = 3)]_vars

\* ------------------------------------------------------------------------
\* C29: every run of the body of EvalOperand's loop over the binary
\* operators moves on in the text or returns, for every text behind the
\* left operand, so that the evaluation of every operand text comes to an
\* end.
C29_LoopIterationConsumesOrReturns ==
  [][eval.st = "loop" => (eval'.p > eval.p \/ eval'.st = "return")]_vars

\* ------------------------------------------------------------------------
\* C30: the state of macro expansion stays consistent under nesting.  As
\* long as InsideMacro is positive, MacroPointer stands in the body of a
\* macro, at one of its lines or at its end, so that a body which holds a
\* call is taken up again behind the call.
C30_MacroPointerInBody ==
  (status = "run" /\ InsideMacro > 0) =>
    /\ MacroPointer.m \in 1..Len(Mac)
    /\ MacroPointer.i \in 1..(Len(Mac[MacroPointer.m].Body) + 1)

====
